
---- MODULE Spec2Model ----
(***************************************************************************)
(* A model of the LUASCRIPT front end: the Unicode-aware lexer             *)
(* (src/src/lexer/enhanced_lexer.py), the recursive-descent parser         *)
(* (src/src/parser/enhanced_parser.py) and the Lua generator               *)
(* (src/src/transpiler/enhanced_transpiler.py).                            *)
(*                                                                         *)
(* A text (source, lexeme, emitted Lua) is a sequence of characters.  An   *)
(* ASCII character is the string of length one; a non-ASCII character is   *)
(* written as its name between angle brackets: "<pi>" is U+03C0, "<sup2>"  *)
(* is U+00B2 (superscript two), "<sub2>" is U+2082, "<times>" is U+00D7,   *)
(* "<sqrt>" is U+221A, "<backtick>" is U+0060.  Indices into a text are 0-based as in   *)
(* the Python code.  Token types and error messages are TLA+ strings.      *)
(***************************************************************************)
EXTENDS Integers, Sequences, FiniteSets, TLC

(***************************************************************************)
(* Python string helpers                                                   *)
(***************************************************************************)

\* the text of an ASCII string literal
Str(s) == [i \in 1..Len(s) |-> SubSeq(s, i, i)]

RECURSIVE Flat(_)
\* a text as one TLA+ string, for messages and table keys
Flat(t) == IF Len(t) = 0 THEN "" ELSE Head(t) \o Flat(Tail(t))

\* the one element of a set of one element: Only({e : x \in {v}}) is e with x
\* standing for the value v
Only(S) == CHOOSE x \in S : TRUE

\* what advance()/peek() return at the end of the source: the character '\0'
NUL == "<NUL>"

\* the backtick character, U+0060
BACKTICK == "<backtick>"

\* Python None where a text is expected
None == <<"<None>">>

\* source[i] with the 0-based index i, NUL when out of range
CharAt(s, i) == IF i >= 0 /\ i < Len(s) THEN s[i + 1] ELSE NUL

\* source[a:b]
Slice(s, a, b) ==
    LET lo == IF a < 0 THEN 0 ELSE a
        hi == IF b > Len(s) THEN Len(s) ELSE b
    IN IF hi <= lo THEN <<>> ELSE SubSeq(s, lo + 1, hi)

AsciiDigits == {"0", "1", "2", "3", "4", "5", "6", "7", "8", "9"}

SuperscriptDigits == {"<sup0>", "<sup1>", "<sup2>", "<sup3>", "<sup4>", "<sup5>", "<sup6>", "<sup7>", "<sup8>", "<sup9>"}

SubscriptDigits == {"<sub0>", "<sub1>", "<sub2>", "<sub3>", "<sub4>", "<sub5>", "<sub6>", "<sub7>", "<sub8>", "<sub9>"}

AsciiLetters ==
    {"a", "b", "c", "d", "e", "f", "g", "h", "i", "j", "k", "l", "m",
     "n", "o", "p", "q", "r", "s", "t", "u", "v", "w", "x", "y", "z",
     "A", "B", "C", "D", "E", "F", "G", "H", "I", "J", "K", "L", "M",
     "N", "O", "P", "Q", "R", "S", "T", "U", "V", "W", "X", "Y", "Z"}

\* the non-ASCII letters of the model's alphabet (str.isalpha() is true)
UnicodeLetters == {"<pi>", "<euler>", "<phi>", "<lambda>", "<Delta>", "<mu>", "<sigma>"}

\* str.isdigit(): the superscript and subscript digits are digits too
isdigit(c) == c \in AsciiDigits \cup SuperscriptDigits \cup SubscriptDigits

\* str.isdecimal(): what int() and float() accept as a digit
isdecimal(c) == c \in AsciiDigits

isalpha(c) == c \in AsciiLetters \cup UnicodeLetters

isalnum(c) == isalpha(c) \/ isdigit(c)

WhitespaceChars == {" ", "\t", "\n", "\r", "\f"}

RECURSIVE lstrip(_)
lstrip(s) ==
    IF Len(s) > 0 /\ CharAt(s, 0) \in WhitespaceChars
    THEN lstrip(Slice(s, 1, Len(s))) ELSE s

RECURSIVE rstrip(_)
rstrip(s) ==
    IF Len(s) > 0 /\ CharAt(s, Len(s) - 1) \in WhitespaceChars
    THEN rstrip(Slice(s, 0, Len(s) - 1)) ELSE s

\* str.strip()
strip(s) == rstrip(lstrip(s))

\* str.isidentifier() on the model's alphabet
isidentifier(s) ==
    /\ Len(s) > 0
    /\ isalpha(CharAt(s, 0)) \/ CharAt(s, 0) = "_"
    /\ \A i \in 1..(Len(s) - 1) :
          LET c == CharAt(s, i) IN isalpha(c) \/ c \in AsciiDigits \/ c = "_"

\* does the string t occur in the message string s
StrContains(s, t) ==
    \E i \in 1..(Len(s) - Len(t) + 1) : SubSeq(s, i, i + Len(t) - 1) = t

\* does the text t occur in s (Python: t in s)
Contains(s, t) ==
    \E i \in 0..(Len(s) - Len(t)) : Slice(s, i, i + Len(t)) = t

\* s.find(t, from): the first index >= from where t occurs, -1 when none
Find(s, t, from) ==
    LET hits == {i \in from..(Len(s) - Len(t)) : Slice(s, i, i + Len(t)) = t}
    IN IF hits = {} THEN -1 ELSE CHOOSE i \in hits : \A j \in hits : i <= j

RECURSIVE Join(_, _)
\* sep.join(parts)
Join(parts, sep) ==
    IF Len(parts) = 0 THEN <<>>
    ELSE IF Len(parts) = 1 THEN parts[1]
    ELSE parts[1] \o sep \o Join(Tail(parts), sep)

(***************************************************************************)
(* Lexer: src/src/lexer/enhanced_lexer.py                                  *)
(***************************************************************************)

MATHEMATICAL_CONSTANTS ==
    [c \in {"<pi>", "<euler>", "<phi>", "<infinity>"} |->
        CASE c = "<pi>" -> <<"MATH_PI", "pi">>
          [] c = "<euler>" -> <<"MATH_E", "e">>
          [] c = "<phi>" -> <<"MATH_PHI", "phi">>
          [] c = "<infinity>" -> <<"MATH_INFINITY", "infinity">>]

MathOperatorSymbols ==
    [c \in {"<times>", "<divide>", "<minus>", "<plusminus>", "<sqrt>", "<rarr>", "<larr>", "<rArr>", "<harr>", "<le>", "<ge>", "<ne>",
            "<approx>", "<prop>", "<in>", "<notin>", "<subset>", "<superset>", "<union>", "<compose>", "<odot>", "<lambda>", "<intersect>", "<empty>",
            "<sum>", "<prod>", "<int>", "<partial>", "<nabla>", "<Delta>"} |->
        CASE c = "<times>" -> <<"MULTIPLY_UNICODE", "times">>
          [] c = "<divide>" -> <<"DIVIDE_UNICODE", "divide">>
          [] c = "<minus>" -> <<"MINUS_UNICODE", "minus">>
          [] c = "<plusminus>" -> <<"PLUS_MINUS", "plus_minus">>
          [] c = "<sqrt>" -> <<"SQRT", "square_root">>
          [] c = "<rarr>" -> <<"ARROW_RIGHT", "arrow_right">>
          [] c = "<larr>" -> <<"ARROW_LEFT", "arrow_left">>
          [] c = "<rArr>" -> <<"ARROW_DOUBLE", "arrow_double">>
          [] c = "<harr>" -> <<"ARROW_LEFT_RIGHT", "arrow_bidirectional">>
          [] c = "<le>" -> <<"LESS_EQUAL_UNICODE", "less_equal">>
          [] c = "<ge>" -> <<"GREATER_EQUAL_UNICODE", "greater_equal">>
          [] c = "<ne>" -> <<"NOT_EQUAL_UNICODE", "not_equal">>
          [] c = "<approx>" -> <<"APPROXIMATELY", "approximately">>
          [] c = "<prop>" -> <<"PROPORTIONAL", "proportional">>
          [] c = "<in>" -> <<"ELEMENT_OF", "element_of">>
          [] c = "<notin>" -> <<"NOT_ELEMENT_OF", "not_element_of">>
          [] c = "<subset>" -> <<"SUBSET", "subset">>
          [] c = "<superset>" -> <<"SUPERSET", "superset">>
          [] c = "<union>" -> <<"UNION", "union">>
          [] c = "<compose>" -> <<"COMPOSITION", "composition">>
          [] c = "<odot>" -> <<"BINARY_COMPOSITION", "binary_composition">>
          [] c = "<lambda>" -> <<"LAMBDA", "lambda">>
          [] c = "<intersect>" -> <<"INTERSECTION", "intersection">>
          [] c = "<empty>" -> <<"EMPTY_SET", "empty_set">>
          [] c = "<sum>" -> <<"SUMMATION", "summation">>
          [] c = "<prod>" -> <<"PRODUCT", "product">>
          [] c = "<int>" -> <<"INTEGRAL", "integral">>
          [] c = "<partial>" -> <<"PARTIAL", "partial">>
          [] c = "<nabla>" -> <<"NABLA", "nabla">>
          [] c = "<Delta>" -> <<"DELTA", "delta">>]

\* the digit value of a superscript or subscript digit
ScriptDigitValue(c) ==
    CASE c \in {"<sup0>", "<sub0>"} -> "0" [] c \in {"<sup1>", "<sub1>"} -> "1"
      [] c \in {"<sup2>", "<sub2>"} -> "2" [] c \in {"<sup3>", "<sub3>"} -> "3"
      [] c \in {"<sup4>", "<sub4>"} -> "4" [] c \in {"<sup5>", "<sub5>"} -> "5"
      [] c \in {"<sup6>", "<sub6>"} -> "6" [] c \in {"<sup7>", "<sub7>"} -> "7"
      [] c \in {"<sup8>", "<sub8>"} -> "8" [] c \in {"<sup9>", "<sub9>"} -> "9"

\* MATHEMATICAL_OPERATORS[c] as (token type, name)
MATHEMATICAL_OPERATORS(c) ==
    IF c \in SuperscriptDigits THEN <<"SUPERSCRIPT_NUMBER", ScriptDigitValue(c)>>
    ELSE IF c \in SubscriptDigits THEN <<"SUBSCRIPT_NUMBER", ScriptDigitValue(c)>>
    ELSE MathOperatorSymbols[c]

KeywordNames ==
    {"let", "const", "var", "function", "fast", "class", "struct", "if",
     "else", "for", "while", "do", "break", "continue", "return", "try",
     "catch", "finally", "throw", "new", "this", "extends", "static",
     "true", "false", "null", "undefined", "of", "in", "instanceof",
     "typeof", "void", "delete", "async", "await", "yield", "import",
     "export", "from", "default", "as", "neural", "tensor", "simd",
     "parallel", "cpu_friendly", "match", "when", "int8", "int16", "int32",
     "int64", "uint8", "uint16", "uint32", "uint64", "float32", "float64",
     "real", "complex"}

\* the TokenType of a keyword: its name in upper case
KeywordType(text) ==
    CASE text = "let" -> "LET" [] text = "const" -> "CONST"
      [] text = "var" -> "VAR" [] text = "function" -> "FUNCTION"
      [] text = "fast" -> "FAST" [] text = "class" -> "CLASS"
      [] text = "struct" -> "STRUCT" [] text = "if" -> "IF"
      [] text = "else" -> "ELSE" [] text = "for" -> "FOR"
      [] text = "while" -> "WHILE" [] text = "do" -> "DO"
      [] text = "break" -> "BREAK" [] text = "continue" -> "CONTINUE"
      [] text = "return" -> "RETURN" [] text = "try" -> "TRY"
      [] text = "catch" -> "CATCH" [] text = "finally" -> "FINALLY"
      [] text = "throw" -> "THROW" [] text = "new" -> "NEW"
      [] text = "this" -> "THIS" [] text = "extends" -> "EXTENDS"
      [] text = "static" -> "STATIC" [] text = "true" -> "TRUE"
      [] text = "false" -> "FALSE" [] text = "null" -> "NULL"
      [] text = "undefined" -> "UNDEFINED" [] text = "of" -> "OF"
      [] text = "in" -> "IN" [] text = "instanceof" -> "INSTANCEOF"
      [] text = "typeof" -> "TYPEOF" [] text = "void" -> "VOID"
      [] text = "delete" -> "DELETE" [] text = "async" -> "ASYNC"
      [] text = "await" -> "AWAIT" [] text = "yield" -> "YIELD"
      [] text = "import" -> "IMPORT" [] text = "export" -> "EXPORT"
      [] text = "from" -> "FROM" [] text = "default" -> "DEFAULT"
      [] text = "as" -> "AS" [] text = "neural" -> "NEURAL"
      [] text = "tensor" -> "TENSOR" [] text = "simd" -> "SIMD"
      [] text = "parallel" -> "PARALLEL"
      [] text = "cpu_friendly" -> "CPU_FRIENDLY"
      [] text = "match" -> "MATCH" [] text = "when" -> "WHEN"
      [] text = "int8" -> "INT8" [] text = "int16" -> "INT16"
      [] text = "int32" -> "INT32" [] text = "int64" -> "INT64"
      [] text = "uint8" -> "UINT8" [] text = "uint16" -> "UINT16"
      [] text = "uint32" -> "UINT32" [] text = "uint64" -> "UINT64"
      [] text = "float32" -> "FLOAT32" [] text = "float64" -> "FLOAT64"
      [] text = "real" -> "REAL" [] text = "complex" -> "COMPLEX"

\* KEYWORDS.get(text, TokenType.IDENTIFIER)
KEYWORDS(text) ==
    IF Flat(text) \in KeywordNames THEN KeywordType(Flat(text)) ELSE "IDENTIFIER"

Token(type, value, line, column, unicode_name) ==
    [type |-> type, value |-> value, line |-> line, column |-> column,
     unicode_name |-> unicode_name]

\* no exception raised
NoError == [kind |-> "None", message |-> "", line |-> 0, column |-> 0]

\* EnhancedLexer.__init__: the lexer's fields; err is the LexerError raised, if any
LexerInit ==
    [tokens |-> <<>>, start |-> 0, current |-> 0, line |-> 1, column |-> 1,
     err |-> NoError]

LexerError(lx, message) ==
    [lx EXCEPT !.err = [kind |-> "LexerError", message |-> message,
                        line |-> lx.line, column |-> lx.column]]

lex_is_at_end(src, lx) == lx.current >= Len(src)

\* advance(): the lexer after consuming one character (unchanged at the end)
lex_advance(src, lx) ==
    IF lex_is_at_end(src, lx) THEN lx
    ELSE [lx EXCEPT !.current = @ + 1, !.column = @ + 1]

lex_peek(src, lx) == IF lex_is_at_end(src, lx) THEN NUL ELSE CharAt(src, lx.current)

lex_peek_next(src, lx) ==
    IF lx.current + 1 >= Len(src) THEN NUL ELSE CharAt(src, lx.current + 1)

\* add_token(type, value, unicode_name); value = None takes source[start:current]
add_token(src, lx, type, value, unicode_name) ==
    LET text == IF value # None THEN value ELSE Slice(src, lx.start, lx.current)
    IN [lx EXCEPT !.tokens =
            Append(@, Token(type, text, lx.line, lx.column - Len(text), unicode_name))]

RECURSIVE scan_line_comment(_, _)
\* _scan_line_comment
scan_line_comment(src, lx) ==
    IF lex_peek(src, lx) # "\n" /\ ~lex_is_at_end(src, lx)
    THEN scan_line_comment(src, lex_advance(src, lx))
    ELSE lx

RECURSIVE block_comment_loop(_, _)
\* the while loop of _scan_block_comment
block_comment_loop(src, lx) ==
    IF lex_is_at_end(src, lx) THEN lx
    ELSE IF lex_peek(src, lx) = "*" /\ lex_peek_next(src, lx) = "/"
    THEN lex_advance(src, lex_advance(src, lx))
    ELSE LET l1 == IF lex_peek(src, lx) = "\n"
                   THEN [lx EXCEPT !.line = @ + 1, !.column = 1] ELSE lx
         IN block_comment_loop(src, lex_advance(src, l1))

\* _scan_block_comment
scan_block_comment(src, lx) == block_comment_loop(src, lex_advance(src, lx))

\* escape_map.get(escaped, escaped) of _scan_string
string_escape(c) ==
    CASE c = "n" -> "\n" [] c = "r" -> "\r" [] c = "t" -> "\t"
      [] OTHER -> c

\* escape_map.get(escaped, escaped) of _scan_template_string
template_escape(c) ==
    CASE c = "n" -> "\n" [] c = "r" -> "\r" [] c = "t" -> "\t"
      [] OTHER -> c

RECURSIVE string_loop_keeping_line(_, _, _, _)
\* the loop of _scan_string with the column set back at a line break and the
\* line left as it was
string_loop_keeping_line(src, lx, quote_char, value) ==
    IF lex_peek(src, lx) # quote_char /\ ~lex_is_at_end(src, lx)
    THEN LET l1 == IF lex_peek(src, lx) = "\n" THEN [lx EXCEPT !.column = 1] ELSE lx
         IN IF lex_peek(src, l1) = "\\"
            THEN LET l2 == lex_advance(src, l1)
                     escaped == lex_peek(src, l2)
                 IN string_loop_keeping_line(src, lex_advance(src, l2), quote_char,
                                             Append(value, string_escape(escaped)))
            ELSE string_loop_keeping_line(src, lex_advance(src, l1), quote_char,
                                          Append(value, lex_peek(src, l1)))
    ELSE [lx |-> lx, value |-> value]

RECURSIVE string_loop(_, _, _, _)
\* the while loop of _scan_string: the lexer and the value collected
string_loop(src, lx, quote_char, value) ==
    IF lex_peek(src, lx) # quote_char /\ ~lex_is_at_end(src, lx)
    THEN LET l1 == IF lex_peek(src, lx) = "\n"
                   THEN [lx EXCEPT !.line = @ + 1, !.column = 1] ELSE lx
         IN IF lex_peek(src, l1) = "\\"
            THEN LET l2 == lex_advance(src, l1)
                     escaped == lex_peek(src, l2)
                 IN string_loop(src, lex_advance(src, l2), quote_char,
                                Append(value, string_escape(escaped)))
            ELSE string_loop(src, lex_advance(src, l1), quote_char,
                             Append(value, lex_peek(src, l1)))
    ELSE [lx |-> lx, value |-> value]

\* _scan_string
scan_string(src, lx, quote_char) ==
    LET r == string_loop(src, lx, quote_char, <<>>)
    IN IF lex_is_at_end(src, r.lx)
       THEN LexerError(r.lx, "Unterminated string literal")
       ELSE add_token(src, lex_advance(src, r.lx), "STRING", r.value, None)

RECURSIVE digits_loop(_, _)
\* while self.peek().isdigit(): self.advance()
digits_loop(src, lx) ==
    IF isdigit(lex_peek(src, lx)) THEN digits_loop(src, lex_advance(src, lx)) ELSE lx

\* _scan_number
scan_number(src, lx) ==
    Only({Only({IF lex_peek(src, l2) \in {"e", "E"}
                THEN Only({Only({IF ~isdigit(lex_peek(src, l4))
                                 THEN LexerError(l4, "Invalid scientific notation")
                                 ELSE add_token(src, digits_loop(src, l4), "NUMBER", None, None)
                                 : l4 \in {IF lex_peek(src, l3) \in {"+", "-"}
                                           THEN lex_advance(src, l3) ELSE l3}})
                           : l3 \in {lex_advance(src, l2)}})
                ELSE add_token(src, l2, "NUMBER", None, None)
                : l2 \in {IF lex_peek(src, l1) = "." /\ isdigit(lex_peek_next(src, l1))
                          THEN digits_loop(src, lex_advance(src, l1)) ELSE l1}})
          : l1 \in {digits_loop(src, lx)}})

\* _is_mathematical_unicode
is_mathematical_unicode(c) ==
    \/ c \in DOMAIN MATHEMATICAL_CONSTANTS
    \/ c \in DOMAIN MathOperatorSymbols \cup SuperscriptDigits \cup SubscriptDigits

\* _scan_mathematical_unicode
scan_mathematical_unicode(src, lx, c) ==
    IF c \in DOMAIN MATHEMATICAL_CONSTANTS
    THEN add_token(src, lx, MATHEMATICAL_CONSTANTS[c][1], <<c>>,
                   Str(MATHEMATICAL_CONSTANTS[c][2]))
    ELSE LET token_type == MATHEMATICAL_OPERATORS(c)[1]
             name == Str(MATHEMATICAL_OPERATORS(c)[2])
         IN IF token_type \in {"SUPERSCRIPT_NUMBER", "SUBSCRIPT_NUMBER"}
            THEN add_token(src, lx, token_type, name, <<c>>)
            ELSE add_token(src, lx, token_type, <<c>>, name)

\* _is_valid_identifier_unicode
is_valid_identifier_unicode(c) == FALSE

RECURSIVE identifier_loop(_, _)
\* the while loop of _scan_identifier
identifier_loop(src, lx) ==
    LET c == lex_peek(src, lx)
    IN IF isalnum(c) \/ c \in {"_", "$"} \/ is_valid_identifier_unicode(c)
       THEN identifier_loop(src, lex_advance(src, lx)) ELSE lx

\* _scan_identifier
scan_identifier(src, lx) ==
    LET l1 == identifier_loop(src, lx)
        text == Slice(src, l1.start, l1.current)
    IN add_token(src, l1, KEYWORDS(text), text, None)

\* the token of one or two alternatives after a lead character
op2(src, lx, second, type2, type1) ==
    IF lex_peek(src, lx) = second
    THEN add_token(src, lex_advance(src, lx), type2, None, None)
    ELSE add_token(src, lx, type1, None, None)

\* _scan_ascii_operator(c) when it returns True
scan_ascii_operator(src, lx, c) ==
    CASE c \in {"=", "!"} ->
            IF lex_peek(src, lx) = "="
            THEN op2(src, lex_advance(src, lx), "=",
                     IF c = "=" THEN "STRICT_EQUAL" ELSE "STRICT_NOT_EQUAL",
                     IF c = "=" THEN "EQUAL" ELSE "NOT_EQUAL")
            ELSE IF c = "=" THEN op2(src, lx, ">", "ARROW", "ASSIGN")
            ELSE add_token(src, lx, "NOT", None, None)
      [] c = "<" -> op2(src, lx, "=", "LESS_EQUAL", "LESS")
      [] c = ">" -> op2(src, lx, "=", "GREATER_EQUAL", "GREATER")
      [] c = "+" -> IF lex_peek(src, lx) = "="
                    THEN add_token(src, lex_advance(src, lx), "PLUS_ASSIGN", None, None)
                    ELSE op2(src, lx, "+", "INCREMENT", "PLUS")
      [] c = "-" -> IF lex_peek(src, lx) = "="
                    THEN add_token(src, lex_advance(src, lx), "MINUS_ASSIGN", None, None)
                    ELSE op2(src, lx, "-", "DECREMENT", "MINUS")
      [] c = "*" -> IF lex_peek(src, lx) = "="
                    THEN add_token(src, lex_advance(src, lx), "MULTIPLY_ASSIGN", None, None)
                    ELSE op2(src, lx, "*", "POWER", "MULTIPLY")
      [] c = "&" -> op2(src, lx, "&", "LOGICAL_AND", "AND")
      [] c = "|" -> op2(src, lx, "|", "LOGICAL_OR", "OR")
      [] c = "/" -> op2(src, lx, "=", "DIVIDE_ASSIGN", "DIVIDE")
      [] c = "%" -> add_token(src, lx, "MODULO", None, None)
      [] c = "^" -> add_token(src, lx, "POWER", None, None)

\* the characters for which _scan_ascii_operator returns True
AsciiOperatorLead == {"=", "!", "<", ">", "+", "-", "*", "&", "|", "/", "%", "^"}

\* punctuation_map of scan_token
punctuation_map(c) ==
    CASE c = "(" -> "LEFT_PAREN" [] c = ")" -> "RIGHT_PAREN"
      [] c = "{" -> "LEFT_BRACE" [] c = "}" -> "RIGHT_BRACE"
      [] c = "[" -> "LEFT_BRACKET" [] c = "]" -> "RIGHT_BRACKET"
      [] c = "," -> "COMMA" [] c = "." -> "DOT" [] c = ";" -> "SEMICOLON"
      [] c = ":" -> "COLON" [] c = "?" -> "QUESTION" [] c = "!" -> "EXCLAMATION"

PunctuationChars == {"(", ")", "{", "}", "[", "]", ",", ".", ";", ":", "?", "!"}

RECURSIVE brace_loop(_, _, _)
\* the inner while loop of _scan_template_string: consume up to the matching }
brace_loop(src, lx, brace_count) ==
    IF brace_count > 0 /\ ~lex_is_at_end(src, lx)
    THEN LET c == lex_peek(src, lx)
         IN brace_loop(src, lex_advance(src, lx),
                       IF c = "{" THEN brace_count + 1
                       ELSE IF c = "}" THEN brace_count - 1 ELSE brace_count)
    ELSE lx

\* the flush of the text collected before an interpolation
template_flush(src, lx, value, expressions) ==
    IF value # <<>>
    THEN add_token(src, lx,
                   IF expressions = <<>> THEN "TEMPLATE_START" ELSE "TEMPLATE_MIDDLE",
                   value, None)
    ELSE lx

RECURSIVE template_loop(_, _, _, _)
\* the outer while loop of _scan_template_string
template_loop(src, lx, value, expressions) ==
    IF lex_peek(src, lx) # BACKTICK /\ ~lex_is_at_end(src, lx)
    THEN IF lex_peek(src, lx) = "$" /\ lex_peek_next(src, lx) = "{"
         THEN LET l1 == template_flush(src, lx, value, expressions)
                  l2 == lex_advance(src, lex_advance(src, l1))
                  expr_start == l2.current
                  l3 == brace_loop(src, l2, 1)
                  expr_text == Slice(src, expr_start, l3.current - 1)
                  l4 == add_token(src, l3, "TEMPLATE_EXPRESSION", expr_text, None)
              IN template_loop(src, l4, <<>>, Append(expressions, expr_text))
         ELSE IF lex_peek(src, lx) = "\n"
         THEN template_loop(src,
                  [lex_advance(src, lx) EXCEPT !.line = @ + 1, !.column = 1],
                  Append(value, "\n"), expressions)
         ELSE IF lex_peek(src, lx) = "\\"
         THEN LET l1 == lex_advance(src, lx)
              IN template_loop(src, lex_advance(src, l1),
                     Append(value, template_escape(lex_peek(src, l1))), expressions)
         ELSE template_loop(src, lex_advance(src, lx),
                            Append(value, lex_peek(src, lx)), expressions)
    ELSE [lx |-> lx, value |-> value, expressions |-> expressions]

\* _scan_template_string
scan_template_string(src, lx) ==
    Only({IF lex_is_at_end(src, r.lx)
          THEN LexerError(r.lx, "Unterminated template string")
          ELSE Only({IF r.expressions # <<>>
                     THEN add_token(src, l1, "TEMPLATE_END", r.value, None)
                     ELSE add_token(src, l1, "TEMPLATE_STRING", r.value, None)
                     : l1 \in {lex_advance(src, r.lx)}})
          : r \in {template_loop(src, lx, <<>>, <<>>)}})

\* scan_token, entered with start = current and not at the end
scan_token(src, lx0) ==
    LET c == lex_peek(src, lx0)
        lx == lex_advance(src, lx0)
    IN IF c \in {" ", "\r", "\t"} THEN lx
       ELSE IF c = "\n"
       THEN [add_token(src, lx, "NEWLINE", None, None)
                EXCEPT !.line = @ + 1, !.column = 1]
       ELSE IF c = "/"
       THEN IF lex_peek(src, lx) = "/" THEN scan_line_comment(src, lx)
            ELSE IF lex_peek(src, lx) = "*" THEN scan_block_comment(src, lx)
            ELSE add_token(src, lx, "DIVIDE", None, None)
       ELSE IF c = BACKTICK THEN scan_template_string(src, lx)
       ELSE IF c \in {"\"", "'"} THEN scan_string(src, lx, c)
       ELSE IF is_mathematical_unicode(c) THEN scan_mathematical_unicode(src, lx, c)
       ELSE IF isdigit(c) THEN scan_number(src, lx)
       ELSE IF c = "|"
       THEN IF lex_peek(src, lx) = ">"
            THEN add_token(src, lex_advance(src, lx), "PIPELINE", None, None)
            ELSE op2(src, lx, "|", "LOGICAL_OR", "OR")
       ELSE IF c = "<" /\ lex_peek(src, lx) = "|"
       THEN add_token(src, lex_advance(src, lx), "REVERSE_PIPELINE", None, None)
       ELSE IF c = "." /\ lex_peek(src, lx) = "."
       THEN op2(src, lex_advance(src, lx), ".", "DOT_DOT_DOT", "RANGE_INCLUSIVE")
       ELSE IF c \in AsciiOperatorLead THEN scan_ascii_operator(src, lx, c)
       ELSE IF c \in PunctuationChars
       THEN add_token(src, lx, punctuation_map(c), None, None)
       ELSE IF isalpha(c) \/ c = "_" \/ c = "$" THEN scan_identifier(src, lx)
       ELSE LexerError(lx, "Unexpected character '" \o c \o "'")

RECURSIVE tokenize_loop(_, _)
\* the while loop of tokenize; stops at the first LexerError
tokenize_loop(src, lx) ==
    IF lx.err.kind # "None" \/ lex_is_at_end(src, lx) THEN lx
    ELSE tokenize_loop(src, scan_token(src, [lx EXCEPT !.start = lx.current]))

\* tokenize returning the tokens scanned with no EOF token after them
tokenize_without_eof(src) == tokenize_loop(src, LexerInit)

\* EnhancedLexer.tokenize: the final lexer, with tokens ending in EOF or err set
tokenize(src) ==
    Only({IF lx.err.kind # "None" THEN lx
          ELSE [lx EXCEPT !.tokens = Append(@, Token("EOF", <<>>, lx.line, lx.column, None))]
          : lx \in {tokenize_loop(src, LexerInit)}})

\* tokenize_source
tokenize_source(src) == tokenize(src)

(***************************************************************************)
(* Parser: src/src/parser/enhanced_parser.py                               *)
(***************************************************************************)

\* Python None where an AST node is expected
NoNode == [type |-> "None"]

Identifier(name, subscript) ==
    [type |-> "Identifier", name |-> name, subscript |-> subscript]

\* Literal(value); vtype is the Python type of value, value its text
Literal(vtype, value) == [type |-> "Literal", vtype |-> vtype, value |-> value]

BinaryExpression(left, operator, right) ==
    [type |-> "BinaryExpression", left |-> left, operator |-> operator, right |-> right]

Parameter(name, type_annotation, default_value, is_rest) ==
    [type |-> "Parameter", name |-> name, type_annotation |-> type_annotation,
     default_value |-> default_value, is_rest |-> is_rest]

BlockStatement(statements) == [type |-> "BlockStatement", statements |-> statements]

FunctionDeclaration(name, parameters, body, return_type, is_mathematical) ==
    [type |-> "FunctionDeclaration", name |-> name, parameters |-> parameters,
     body |-> body, return_type |-> return_type, is_mathematical |-> is_mathematical]

VariableDeclarator(id, init, type_annotation) ==
    [type |-> "VariableDeclarator", id |-> id, init |-> init,
     type_annotation |-> type_annotation]

VariableDeclaration(kind, declarations) ==
    [type |-> "VariableDeclaration", kind |-> kind, declarations |-> declarations]

Property(key, value, method, shorthand, computed) ==
    [type |-> "Property", key |-> key, value |-> value, kind |-> "init",
     method |-> method, shorthand |-> shorthand, computed |-> computed]

\* EnhancedParser.__init__ with the token list installed
ParserInit(toks) ==
    [tokens |-> toks, current |-> 0, in_function |-> FALSE, in_loop |-> FALSE,
     in_class |-> FALSE]

\* a parse method returned node with the parser left as p
Ok(node, p) == [exc |-> "None", msg |-> "", node |-> node, p |-> p]

\* a parse method raised an exception of class kind with the message msg
Raise(kind, msg, p) == [exc |-> kind, msg |-> msg, node |-> NoNode, p |-> p]

\* str(e) of an exception: ParseError prefixes its message
ExcStr(r) == IF r.exc = "ParseError" THEN "Parse Error: " \o r.msg ELSE r.msg

peek(p) ==
    IF p.current >= Len(p.tokens)
    THEN Token("EOF", <<>>, p.current, p.current, None)
    ELSE p.tokens[p.current + 1]

is_at_end(p) == p.current >= Len(p.tokens) \/ peek(p).type = "EOF"

check(p, token_type) == ~is_at_end(p) /\ peek(p).type = token_type

check_any(p, token_types) == \E t \in token_types : check(p, t)

\* advance(): the parser after consuming the current token
advance(p) == IF ~is_at_end(p) THEN [p EXCEPT !.current = @ + 1] ELSE p

previous(p) == IF p.current > 0 THEN p.tokens[p.current] ELSE p.tokens[1]

\* match(token_type) and match_any(...): the parser afterwards (p itself on False)
match(p, token_type) == IF check(p, token_type) THEN advance(p) ELSE p

match_any(p, token_types) == IF check_any(p, token_types) THEN advance(p) ELSE p

peek_ahead(p, distance) ==
    IF p.current + distance >= Len(p.tokens) THEN NoNode
    ELSE p.tokens[p.current + distance + 1]

\* consume(token_type, message): node is the token consumed
consume(p, token_type, message) ==
    IF check(p, token_type) THEN Ok(previous(advance(p)), advance(p))
    ELSE Raise("ParseError",
               message \o ". Got " \o peek(p).type \o ": '" \o Flat(peek(p).value) \o "'", p)

check_statement_terminator(p) == check_any(p, {"NEWLINE", "SEMICOLON", "EOF"})

consume_statement_terminator(p) == match_any(p, {"SEMICOLON", "NEWLINE"})

TypeTokens ==
    {"INT8", "INT16", "INT32", "INT64", "UINT8", "UINT16", "UINT32", "UINT64",
     "FLOAT32", "FLOAT64", "REAL", "COMPLEX"}

is_type_token(p) == check_any(p, TypeTokens)

RECURSIVE paren_scan(_, _, _)
\* the while loop shared by is_mathematical_function and is_arrow_function:
\* the index after the parenthesis that brings paren_count to 0
paren_scan(toks, i, paren_count) ==
    IF i < Len(toks) /\ paren_count > 0
    THEN paren_scan(toks, i + 1,
             IF toks[i + 1].type = "LEFT_PAREN" THEN paren_count + 1
             ELSE IF toks[i + 1].type = "RIGHT_PAREN" THEN paren_count - 1
             ELSE paren_count)
    ELSE i

is_mathematical_function(p) ==
    IF ~check(p, "IDENTIFIER") THEN FALSE
    ELSE IF peek_ahead(p, 1) = NoNode \/ peek_ahead(p, 1).type # "LEFT_PAREN" THEN FALSE
    ELSE LET i == paren_scan(p.tokens, p.current + 2, 1)
         IN i < Len(p.tokens) /\ p.tokens[i + 1].type = "ASSIGN"

is_arrow_function(p) ==
    LET i == IF p.tokens[p.current + 1].type = "LEFT_PAREN"
             THEN paren_scan(p.tokens, p.current + 1, 1) ELSE p.current
    IN i < Len(p.tokens) /\ p.tokens[i + 1].type = "ARROW"

\* _is_for_of_pattern with no finally clause: the parser is left where the
\* lookahead stopped
is_for_of_pattern_unrestored(p) ==
    LET p1 == IF check_any(p, {"LET", "CONST", "VAR"}) THEN advance(p) ELSE p
    IN IF ~check(p1, "IDENTIFIER") THEN [result |-> FALSE, p |-> p1]
       ELSE [result |-> check(advance(p1), "OF"), p |-> advance(p1)]

\* _is_for_of_pattern: the answer and the parser after the finally clause
is_for_of_pattern(p) ==
    LET saved_position == p.current
        p1 == IF check_any(p, {"LET", "CONST", "VAR"}) THEN advance(p) ELSE p
        result == IF ~check(p1, "IDENTIFIER") THEN FALSE
                  ELSE check(advance(p1), "OF")
    IN [result |-> result, p |-> [p1 EXCEPT !.current = saved_position]]

RECURSIVE int_value(_)
\* int(text) for a text of decimal digits
int_value(text) ==
    IF Len(text) = 0 THEN 0
    ELSE 10 * int_value(SubSeq(text, 1, Len(text) - 1))
         + (CHOOSE d \in 0..9 : Str("0123456789")[d + 1] = text[Len(text)])

RECURSIVE int_str(_)
\* str(n) for an int n >= 0
int_str(n) ==
    IF n < 10 THEN <<Str("0123456789")[n + 1]>>
    ELSE int_str(n \div 10) \o <<Str("0123456789")[(n % 10) + 1]>>

\* int(value) succeeds: value is a nonempty text of decimal digits
is_int_text(text) == Len(text) > 0 /\ \A i \in 1..Len(text) : isdecimal(text[i])

\* float(value) succeeds on a NUMBER lexeme: no superscript or subscript digit
is_float_text(text) ==
    Len(text) > 0 /\ \A i \in 1..Len(text) : text[i] \notin SuperscriptDigits \cup SubscriptDigits

RECURSIVE strip_leading_zeros(_)
strip_leading_zeros(t) ==
    IF Len(t) > 0 /\ t[1] = "0" THEN strip_leading_zeros(Tail(t)) ELSE t

RECURSIVE strip_trailing_zeros(_)
strip_trailing_zeros(t) ==
    IF Len(t) > 0 /\ t[Len(t)] = "0"
    THEN strip_trailing_zeros(SubSeq(t, 1, Len(t) - 1)) ELSE t

zeros(n) == [i \in 1..n |-> "0"]

\* str(float(text)) for a NUMBER lexeme of at most 15 significant digits:
\* the shortest decimal that reads back, fixed for 1e-4 <= x < 1e16
float_str(text) ==
    Only({Only({Only({Only({Only({Only({Only({Only({Only({Only({Only({Only({Only({Only({Only({IF n = 0 THEN Str("0.0")
                                                                                              ELSE IF x >= -4 /\ x < 16
                                                                                              THEN IF e >= 0 THEN sd \o zeros(e) \o Str(".0")
                                                                                                   ELSE IF x >= 0 THEN SubSeq(sd, 1, x + 1) \o Str(".") \o SubSeq(sd, x + 2, n)
                                                                                                   ELSE Str("0.") \o zeros(ax - 1) \o sd
                                                                                              ELSE <<sd[1]>> \o (IF n > 1 THEN Str(".") \o Tail(sd) ELSE <<>>)
                                                                                                   \o Str("e") \o (IF x < 0 THEN Str("-") ELSE Str("+"))
                                                                                                   \o (IF ax < 10 THEN Str("0") ELSE <<>>) \o int_str(ax)
                                                                                              : ax \in {IF x < 0 THEN 0 - x ELSE x}})
                                                                                        : x \in {e + n - 1}})
                                                                                  : n \in {Len(sd)}})
                                                                            : e \in {exp - Len(fpart) + (Len(sd0) - Len(sd))}})
                                                                      : sd \in {strip_trailing_zeros(sd0)}})
                                                                : sd0 \in {strip_leading_zeros(ipart \o fpart)}})
                                                          : exp \in {IF eneg THEN 0 - int_value(edigits) ELSE int_value(edigits)}})
                                                    : edigits \in {IF Len(etext) > 0 /\ etext[1] \in {"+", "-"} THEN Tail(etext) ELSE etext}})
                                              : eneg \in {Len(etext) > 0 /\ etext[1] = "-"}})
                                        : etext \in {SubSeq(text, epos + 1, Len(text))}})
                                  : fpart \in {SubSeq(mant, dpos + 1, Len(mant))}})
                            : ipart \in {SubSeq(mant, 1, dpos - 1)}})
                      : dpos \in {IF \E i \in 1..Len(mant) : mant[i] = "."
                                  THEN CHOOSE i \in 1..Len(mant) : mant[i] = "."
                                  ELSE Len(mant) + 1}})
                : mant \in {SubSeq(text, 1, epos - 1)}})
          : epos \in {IF \E i \in 1..Len(text) : text[i] \in {"e", "E"}
                      THEN CHOOSE i \in 1..Len(text) : text[i] \in {"e", "E"}
                      ELSE Len(text) + 1}})

\* the try/except of parse_primary_expression and parse_postfix_expression:
\* Literal(int(value)), else Literal(float(value)), else ValueError
number_literal(text, p) ==
    IF is_int_text(text) THEN Ok(Literal("int", int_str(int_value(text))), p)
    ELSE IF is_float_text(text) THEN Ok(Literal("float", float_str(text)), p)
    ELSE Raise("ValueError",
               "could not convert string to float: '" \o Flat(text) \o "'", p)

RECURSIVE self_call(_, _), parse_program(_), parse_statement(_), parse_statement_body(_), parse_variable_declaration(_, _),
          var_declarators(_, _, _), parse_if_statement(_), parse_for_statement(_),
          parse_for_of_statement(_), parse_traditional_for_statement(_),
          parse_expression_with_context(_, _), parse_while_statement(_),
          parse_try_statement(_), parse_function_declaration(_),
          parse_class_declaration(_), class_body(_, _), parse_method_definition(_),
          parse_mathematical_function(_), parse_parameter_list(_),
          parameter_loop(_, _), parse_block_statement(_), block_body(_, _),
          parse_return_statement(_), parse_throw_statement(_),
          parse_expression_statement(_), parse_expression(_),
          parse_assignment_expression(_), assignment_tail(_),
          parse_conditional_expression(_), binary_level(_, _), binary_loop(_, _), levels_up(_, _, _),
          parse_logical_or_expression(_), parse_logical_and_expression(_),
          parse_equality_expression(_), parse_relational_expression(_),
          parse_additive_expression(_), parse_multiplicative_expression(_),
          parse_unary_expression(_), parse_postfix_expression(_),
          parse_call_expression(_), call_loop(_), parse_argument_list(_),
          argument_loop(_, _), parse_primary_expression(_),
          parse_template_literal(_, _), template_parts(_, _, _),
          parse_array_expression(_), array_elements(_, _),
          parse_object_expression(_), object_properties(_, _), parse_property(_),
          parse_arrow_function(_), parse_member_expression(_), member_loop(_),
          parse_array_pattern(_), array_pattern_loop(_, _),
          parse_object_pattern(_), object_pattern_loop(_, _),
          arrow_parameters(_, _), parse_type_annotation(_), generic_args(_, _)

\* self.<name>(): the call of a parse method by name; the parse methods
\* call one another through it
self_call(name, p) ==
    CASE name = "parse_statement" -> parse_statement(p)
      [] name = "parse_statement_body" -> parse_statement_body(p)
      [] name = "parse_if_statement" -> parse_if_statement(p)
      [] name = "parse_for_statement" -> parse_for_statement(p)
      [] name = "parse_for_of_statement" -> parse_for_of_statement(p)
      [] name = "parse_traditional_for_statement" -> parse_traditional_for_statement(p)
      [] name = "parse_while_statement" -> parse_while_statement(p)
      [] name = "parse_try_statement" -> parse_try_statement(p)
      [] name = "parse_function_declaration" -> parse_function_declaration(p)
      [] name = "parse_class_declaration" -> parse_class_declaration(p)
      [] name = "parse_method_definition" -> parse_method_definition(p)
      [] name = "parse_mathematical_function" -> parse_mathematical_function(p)
      [] name = "parse_parameter_list" -> parse_parameter_list(p)
      [] name = "parse_block_statement" -> parse_block_statement(p)
      [] name = "parse_return_statement" -> parse_return_statement(p)
      [] name = "parse_throw_statement" -> parse_throw_statement(p)
      [] name = "parse_expression_statement" -> parse_expression_statement(p)
      [] name = "parse_expression" -> parse_expression(p)
      [] name = "parse_assignment_expression" -> parse_assignment_expression(p)
      [] name = "parse_conditional_expression" -> parse_conditional_expression(p)
      [] name = "parse_unary_expression" -> parse_unary_expression(p)
      [] name = "parse_postfix_expression" -> parse_postfix_expression(p)
      [] name = "parse_call_expression" -> parse_call_expression(p)
      [] name = "parse_argument_list" -> parse_argument_list(p)
      [] name = "parse_primary_expression" -> parse_primary_expression(p)
      [] name = "parse_array_expression" -> parse_array_expression(p)
      [] name = "parse_object_expression" -> parse_object_expression(p)
      [] name = "parse_property" -> parse_property(p)
      [] name = "parse_arrow_function" -> parse_arrow_function(p)
      [] name = "parse_member_expression" -> parse_member_expression(p)
      [] name = "parse_array_pattern" -> parse_array_pattern(p)
      [] name = "parse_object_pattern" -> parse_object_pattern(p)
      [] name = "parse_type_annotation" -> parse_type_annotation(p)
      [] name = "parse_program" -> parse_program(p)

\* parse_expression
parse_expression(p) == self_call("parse_assignment_expression", p)

\* the while self.match(COMMA) loop of the arrow attempt in parse_assignment_expression
arrow_parameters(p, parameters) ==
    IF check(p, "COMMA")
    THEN LET c == consume(advance(p), "IDENTIFIER", "Expected parameter name")
         IN IF c.exc # "None" THEN c
            ELSE arrow_parameters(c.p,
                     Append(parameters, Parameter(c.node.value, None, NoNode, FALSE)))
    ELSE Ok(parameters, p)

\* the check for assignment operators at the end of parse_assignment_expression;
\* r is the result for the left-hand side
assignment_tail(r) ==
    IF r.exc # "None" THEN r
    ELSE IF check_any(r.p, {"ASSIGN", "PLUS_ASSIGN", "MINUS_ASSIGN"})
    THEN LET p1 == advance(r.p)
             operator == previous(p1).value
             right == self_call("parse_assignment_expression", p1)
         IN IF right.exc # "None" THEN right
            ELSE Ok([type |-> "AssignmentExpression", left |-> r.node,
                     operator |-> operator, right |-> right.node], right.p)
    ELSE r

\* the body of an arrow function recognised by parse_assignment_expression
arrow_from(parameters, p) ==
    LET body == self_call("parse_assignment_expression", p)
    IN IF body.exc # "None" THEN body
       ELSE Ok([type |-> "ArrowFunctionExpression", parameters |-> parameters,
                body |-> body.node], body.p)

parse_assignment_expression(p) ==
    IF check(p, "LEFT_PAREN")
    THEN LET start_pos == p.current
             p1 == advance(p)
             first == IF ~check(p1, "RIGHT_PAREN")
                      THEN consume(p1, "IDENTIFIER", "Expected parameter name")
                      ELSE Ok(NoNode, p1)
             params == IF first.exc # "None" THEN first
                       ELSE IF first.node = NoNode THEN Ok(<<>>, p1)
                       ELSE arrow_parameters(first.p,
                                <<Parameter(first.node.value, None, NoNode, FALSE)>>)
         IN IF params.exc # "None" THEN params
            ELSE IF ~check(params.p, "RIGHT_PAREN")
            THEN assignment_tail(self_call("parse_conditional_expression", 
                                     [params.p EXCEPT !.current = start_pos]))
            ELSE IF check(advance(params.p), "ARROW")
            THEN arrow_from(params.node, advance(advance(params.p)))
            ELSE assignment_tail(self_call("parse_conditional_expression", 
                                     [params.p EXCEPT !.current = start_pos]))
    ELSE IF check(p, "IDENTIFIER")
    THEN LET next_pos == p.current + 1
         IN IF next_pos < Len(p.tokens) /\ p.tokens[next_pos + 1].type = "ARROW"
            THEN LET p1 == advance(p)
                     param_name == previous(p1).value
                     c == consume(p1, "ARROW", "Expected '=>' in arrow function")
                 IN IF c.exc # "None" THEN c
                    ELSE arrow_from(<<Parameter(param_name, None, NoNode, FALSE)>>, c.p)
            ELSE assignment_tail(self_call("parse_conditional_expression", p))
    ELSE assignment_tail(self_call("parse_conditional_expression", p))

parse_conditional_expression(p) ==
    LET expr == parse_logical_or_expression(p)
    IN IF expr.exc # "None" THEN expr
       ELSE IF check(expr.p, "QUESTION")
       THEN LET consequent == self_call("parse_assignment_expression", advance(expr.p))
            IN IF consequent.exc # "None" THEN consequent
               ELSE LET c == consume(consequent.p, "COLON",
                                     "Expected ':' after '?' in ternary")
                    IN IF c.exc # "None" THEN c
                       ELSE LET alternate == self_call("parse_assignment_expression", c.p)
                            IN IF alternate.exc # "None" THEN alternate
                               ELSE Ok([type |-> "ConditionalExpression",
                                        test |-> expr.node,
                                        consequent |-> consequent.node,
                                        alternate |-> alternate.node], alternate.p)
       ELSE expr

\* the binary levels of the grammar, loosest first; level n's operands are
\* parsed by level n + 1 and the operands of the last level by
\* parse_unary_expression
LogicalOr == 1
LogicalAnd == 2
Equality == 3
Relational == 4
Additive == 5
Multiplicative == 6

\* the token types a binary level matches in its while loop
binary_operators(level) ==
    CASE level = LogicalOr -> {"OR", "LOGICAL_OR"}
      [] level = LogicalAnd -> {"AND", "LOGICAL_AND"}
      [] level = Equality -> {"EQUAL", "NOT_EQUAL", "STRICT_EQUAL",
                              "STRICT_NOT_EQUAL", "NOT_EQUAL_UNICODE"}
      [] level = Relational -> {"LESS", "GREATER", "LESS_EQUAL", "GREATER_EQUAL",
                                "LESS_EQUAL_UNICODE", "GREATER_EQUAL_UNICODE"}
      [] level = Additive -> {"PLUS", "MINUS", "MINUS_UNICODE"}
      [] level = Multiplicative -> {"MULTIPLY", "DIVIDE", "MODULO",
                                    "MULTIPLY_UNICODE", "DIVIDE_UNICODE"}

\* while self.match_any(...): expr = BinaryExpression(expr, operator, right);
\* r is the result for the first operand
binary_loop(level, r) ==
    IF r.exc # "None" THEN r
    ELSE IF check_any(r.p, binary_operators(level))
    THEN LET p1 == advance(r.p)
             right == binary_level(level + 1, p1)
         IN IF right.exc # "None" THEN right
            ELSE binary_loop(level,
                     Ok(BinaryExpression(r.node, previous(p1).value, right.node), right.p))
    ELSE r

\* the loops of the levels from level down to top, innermost first, around
\* the operand result r: what the methods of these levels do after the
\* innermost one has parsed its first operand
levels_up(level, top, r) ==
    IF level < top \/ r.exc # "None" THEN r
    ELSE levels_up(level - 1, top, binary_loop(level, r))

\* the method of a binary level (parse_logical_or_expression is level 1,
\* parse_multiplicative_expression level 6); level 7 is parse_unary_expression
binary_level(level, p) == levels_up(Multiplicative, level, self_call("parse_unary_expression", p))

parse_logical_or_expression(p) == binary_level(LogicalOr, p)

parse_logical_and_expression(p) == binary_level(LogicalAnd, p)

parse_equality_expression(p) == binary_level(Equality, p)

parse_relational_expression(p) == binary_level(Relational, p)

parse_additive_expression(p) == binary_level(Additive, p)

parse_multiplicative_expression(p) == binary_level(Multiplicative, p)

parse_unary_expression(p) ==
    CASE check_any(p, {"NOT", "MINUS", "PLUS", "MINUS_UNICODE", "SQRT"}) ->
           LET p1 == advance(p)
               expr == self_call("parse_unary_expression", p1)
           IN IF expr.exc # "None" THEN expr
              ELSE Ok([type |-> "UnaryExpression", operator |-> previous(p1).value,
                       argument |-> expr.node, prefix |-> TRUE], expr.p)
      [] check_any(p, {"INCREMENT", "DECREMENT"}) ->
           LET p1 == advance(p)
               expr == self_call("parse_postfix_expression", p1)
           IN IF expr.exc # "None" THEN expr
              ELSE Ok([type |-> "UpdateExpression", operator |-> previous(p1).value,
                       argument |-> expr.node, prefix |-> TRUE], expr.p)
      [] OTHER -> self_call("parse_postfix_expression", p)

parse_postfix_expression(p) ==
    LET expr == self_call("parse_call_expression", p)
    IN IF expr.exc # "None" THEN expr
       ELSE IF check_any(expr.p, {"INCREMENT", "DECREMENT"})
       THEN LET p1 == advance(expr.p)
            IN Ok([type |-> "UpdateExpression", operator |-> previous(p1).value,
                   argument |-> expr.node, prefix |-> FALSE], p1)
       ELSE IF check(expr.p, "SUPERSCRIPT_NUMBER")
       THEN LET p1 == advance(expr.p)
                power == number_literal(previous(p1).value, p1)
            IN IF power.exc # "None" THEN power
               ELSE Ok(BinaryExpression(expr.node, Str("^"), power.node), p1)
       ELSE expr

\* the while True loop of parse_call_expression; r is the result for expr so far
call_loop(r) ==
    CASE r.exc # "None" -> r
      [] r.exc = "None" /\ check(r.p, "LEFT_PAREN") ->
           LET args == self_call("parse_argument_list", advance(r.p))
           IN IF args.exc # "None" THEN args
              ELSE LET c == consume(args.p, "RIGHT_PAREN", "Expected ')' after arguments")
                   IN IF c.exc # "None" THEN c
                      ELSE call_loop(Ok([type |-> "CallExpression", callee |-> r.node,
                                         arguments |-> args.node], c.p))
      [] r.exc = "None" /\ check(r.p, "DOT") ->
           LET c == consume(advance(r.p), "IDENTIFIER", "Expected property name after '.'")
           IN IF c.exc # "None" THEN c
              ELSE call_loop(Ok([type |-> "MemberExpression", object |-> r.node,
                                 property |-> Identifier(c.node.value, None),
                                 computed |-> FALSE], c.p))
      [] r.exc = "None" /\ check(r.p, "LEFT_BRACKET") ->
           LET prop == self_call("parse_expression", advance(r.p))
           IN IF prop.exc # "None" THEN prop
              ELSE LET c == consume(prop.p, "RIGHT_BRACKET",
                                    "Expected ']' after computed property")
                   IN IF c.exc # "None" THEN c
                      ELSE call_loop(Ok([type |-> "MemberExpression", object |-> r.node,
                                         property |-> prop.node, computed |-> TRUE], c.p))
      [] OTHER -> r

parse_call_expression(p) == call_loop(self_call("parse_primary_expression", p))

\* the while loop of parse_argument_list
argument_loop(p, args) ==
    IF ~check(p, "RIGHT_PAREN") /\ ~is_at_end(p)
    THEN LET spread == check(p, "DOT_DOT_DOT")
             arg == self_call("parse_assignment_expression", match(p, "DOT_DOT_DOT"))
         IN IF arg.exc # "None" THEN arg
            ELSE LET node == IF spread
                             THEN [type |-> "SpreadElement", argument |-> arg.node]
                             ELSE arg.node
                 IN IF check(arg.p, "COMMA")
                    THEN argument_loop(advance(arg.p), Append(args, node))
                    ELSE Ok(Append(args, node), arg.p)
    ELSE Ok(args, p)

parse_argument_list(p) == argument_loop(p, <<>>)

parse_primary_expression(p) ==
    CASE check(p, "TRUE") -> Ok(Literal("bool", Str("True")), advance(p))
      [] check(p, "FALSE") -> Ok(Literal("bool", Str("False")), advance(p))
      [] check_any(p, {"NULL", "UNDEFINED"}) -> Ok(Literal("NoneType", None), advance(p))
      [] check(p, "NUMBER") -> number_literal(peek(p).value, advance(p))
      [] check(p, "STRING") -> Ok(Literal("str", peek(p).value), advance(p))
      [] check_any(p, {"MATH_PI", "MATH_E", "MATH_PHI", "MATH_INFINITY"}) ->
           Ok(Identifier(peek(p).value, None), advance(p))
      [] check_any(p, {"TEMPLATE_STRING", "TEMPLATE_START"}) ->
           parse_template_literal(advance(p), peek(p))
      [] check(p, "THIS") -> Ok(Identifier(Str("this"), None), advance(p))
      [] check(p, "IDENTIFIER") ->
           LET p1 == advance(p)
           IN IF check(p1, "SUBSCRIPT_NUMBER")
              THEN Ok(Identifier(peek(p).value, peek(p1).value), advance(p1))
              ELSE Ok(Identifier(peek(p).value, None), p1)
      [] check(p, "LEFT_BRACKET") -> self_call("parse_array_expression", advance(p))
      [] check(p, "LEFT_BRACE") -> self_call("parse_object_expression", advance(p))
      [] check(p, "LEFT_PAREN") ->
           LET p1 == advance(p)
           IN IF is_arrow_function(p1) THEN self_call("parse_arrow_function", p1)
              ELSE LET expr == self_call("parse_expression", p1)
                   IN IF expr.exc # "None" THEN expr
                      ELSE LET c == consume(expr.p, "RIGHT_PAREN",
                                            "Expected ')' after expression")
                           IN IF c.exc # "None" THEN c ELSE Ok(expr.node, c.p)
      [] check(p, "NEW") ->
           LET callee == self_call("parse_member_expression", advance(p))
           IN IF callee.exc # "None" THEN callee
              ELSE IF check(callee.p, "LEFT_PAREN")
              THEN LET args == self_call("parse_argument_list", advance(callee.p))
                   IN IF args.exc # "None" THEN args
                      ELSE LET c == consume(args.p, "RIGHT_PAREN",
                                            "Expected ')' after new arguments")
                           IN IF c.exc # "None" THEN c
                              ELSE Ok([type |-> "NewExpression", callee |-> callee.node,
                                       arguments |-> args.node], c.p)
              ELSE Ok([type |-> "NewExpression", callee |-> callee.node,
                       arguments |-> <<>>], callee.p)
      [] OTHER -> Raise("ParseError", "Unexpected token: " \o Flat(peek(p).value), p)

TemplateElement(value, tail) == [type |-> "TemplateElement", value |-> value, tail |-> tail]

TemplateTokenTypes ==
    {"TEMPLATE_STRING", "TEMPLATE_START", "TEMPLATE_MIDDLE", "TEMPLATE_END",
     "TEMPLATE_EXPRESSION"}

\* the while loop of parse_template_literal
template_parts(p, quasis, expressions) ==
    IF check_any(p, TemplateTokenTypes) /\ ~is_at_end(p)
    THEN IF check(p, "TEMPLATE_EXPRESSION")
         THEN LET expr_text == peek(p).value
              IN template_parts(advance(p), quasis,
                     IF strip(expr_text) # <<>>
                     THEN IF isidentifier(expr_text)
                          THEN Append(expressions, Identifier(expr_text, None))
                          ELSE Append(expressions, Literal("str", expr_text))
                     ELSE expressions)
         ELSE LET is_tail == peek(p).type = "TEMPLATE_END"
                  q == Append(quasis, TemplateElement(peek(p).value, is_tail))
              IN IF is_tail
                 THEN Ok([type |-> "TemplateLiteral", quasis |-> q,
                          expressions |-> expressions], advance(p))
                 ELSE template_parts(advance(p), q, expressions)
    ELSE Ok([type |-> "TemplateLiteral", quasis |-> quasis,
             expressions |-> expressions], p)

\* parse_template_literal(first_token), entered after first_token was consumed
parse_template_literal(p, first_token) ==
    template_parts(p, <<TemplateElement(first_token.value,
                                        first_token.type = "TEMPLATE_END")>>, <<>>)

\* the while loop of parse_array_expression
array_elements(p, elements) ==
    IF ~check(p, "RIGHT_BRACKET") /\ ~is_at_end(p)
    THEN IF check(p, "COMMA")
         THEN LET p1 == advance(p)
              IN IF check(p1, "COMMA")
                 THEN array_elements(advance(p1), Append(elements, NoNode))
                 ELSE Ok(Append(elements, NoNode), p1)
         ELSE LET spread == check(p, "DOT_DOT_DOT")
                  e == self_call("parse_assignment_expression", match(p, "DOT_DOT_DOT"))
              IN IF e.exc # "None" THEN e
                 ELSE LET node == IF spread
                                  THEN [type |-> "SpreadElement", argument |-> e.node]
                                  ELSE e.node
                      IN IF check(e.p, "COMMA")
                         THEN array_elements(advance(e.p), Append(elements, node))
                         ELSE Ok(Append(elements, node), e.p)
    ELSE Ok(elements, p)

\* parse_array_expression, entered after the [ was consumed
parse_array_expression(p) ==
    LET elements == array_elements(p, <<>>)
    IN IF elements.exc # "None" THEN elements
       ELSE LET c == consume(elements.p, "RIGHT_BRACKET",
                             "Expected ']' after array elements")
            IN IF c.exc # "None" THEN c
               ELSE Ok([type |-> "ArrayExpression", elements |-> elements.node], c.p)

\* the while loop of parse_object_expression
object_properties(p, properties) ==
    IF ~check(p, "RIGHT_BRACE") /\ ~is_at_end(p)
    THEN LET prop == IF check(p, "DOT_DOT_DOT")
                     THEN LET e == self_call("parse_assignment_expression", advance(p))
                          IN IF e.exc # "None" THEN e
                             ELSE Ok(Property(Literal("str", Str("...")), e.node,
                                              FALSE, FALSE, FALSE), e.p)
                     ELSE self_call("parse_property", p)
         IN IF prop.exc # "None" THEN prop
            ELSE IF check(prop.p, "COMMA")
            THEN object_properties(advance(prop.p), Append(properties, prop.node))
            ELSE Ok(Append(properties, prop.node), prop.p)
    ELSE Ok(properties, p)

\* parse_object_expression, entered after the { was consumed
parse_object_expression(p) ==
    LET properties == object_properties(p, <<>>)
    IN IF properties.exc # "None" THEN properties
       ELSE LET c == consume(properties.p, "RIGHT_BRACE",
                             "Expected '}' after object properties")
            IN IF c.exc # "None" THEN c
               ELSE Ok([type |-> "ObjectExpression", properties |-> properties.node], c.p)

\* the part of parse_property after the key was parsed
property_rest(key, computed, p) ==
    IF key.type = "Identifier" /\ ~computed /\ ~check(p, "COLON")
    THEN Ok(Property(key, key, FALSE, TRUE, FALSE), p)
    ELSE IF check(p, "LEFT_PAREN")
    THEN LET parameters == self_call("parse_parameter_list", advance(p))
         IN IF parameters.exc # "None" THEN parameters
            ELSE LET c == consume(parameters.p, "RIGHT_PAREN",
                                  "Expected ')' after method parameters")
                 IN IF c.exc # "None" THEN c
                    ELSE LET body == self_call("parse_block_statement", c.p)
                         IN IF body.exc # "None" THEN body
                            ELSE IF key.type \notin {"Identifier", "Literal"}
                            THEN Raise("AttributeError",
                                       "object has no attribute 'value'", body.p)
                            ELSE Ok(Property(key,
                                        FunctionDeclaration(
                                            IF key.type = "Identifier" THEN key.name
                                            ELSE key.value,
                                            parameters.node, body.node, None, FALSE),
                                        TRUE, FALSE, computed), body.p)
    ELSE LET c == consume(p, "COLON", "Expected ':' after property key")
         IN IF c.exc # "None" THEN c
            ELSE LET value == self_call("parse_assignment_expression", c.p)
                 IN IF value.exc # "None" THEN value
                    ELSE Ok(Property(key, value.node, FALSE, FALSE, computed), value.p)

parse_property(p) ==
    IF check(p, "LEFT_BRACKET")
    THEN LET key == self_call("parse_expression", advance(p))
         IN IF key.exc # "None" THEN key
            ELSE LET c == consume(key.p, "RIGHT_BRACKET",
                                  "Expected ']' after computed property")
                 IN IF c.exc # "None" THEN c ELSE property_rest(key.node, TRUE, c.p)
    ELSE IF check(p, "IDENTIFIER")
    THEN property_rest(Identifier(peek(p).value, None), FALSE, advance(p))
    ELSE IF check_any(p, {"STRING", "NUMBER"})
    THEN property_rest(Literal("str", peek(p).value), FALSE, advance(p))
    ELSE Raise("ParseError", "Expected property name", p)

parse_arrow_function(p) ==
    Only({IF parameters.exc # "None" THEN parameters
          ELSE Only({IF c.exc # "None" THEN c
                     ELSE Only({IF body.exc # "None" THEN body
                                ELSE Ok([type |-> "ArrowFunctionExpression",
                                         parameters |-> parameters.node, body |-> body.node],
                                        body.p)
                                : body \in {IF check(c.p, "LEFT_BRACE")
                                            THEN self_call("parse_block_statement", c.p)
                                            ELSE self_call("parse_assignment_expression", c.p)}})
                     : c \in {consume(parameters.p, "ARROW", "Expected '=>' in arrow function")}})
          : parameters \in {IF check(p, "LEFT_PAREN")
                            THEN Only({IF ps.exc # "None" THEN ps
                                       ELSE Only({IF c.exc # "None" THEN c ELSE Ok(ps.node, c.p)
                                                  : c \in {consume(ps.p, "RIGHT_PAREN",
                                                              "Expected ')' after arrow function parameters")}})
                                       : ps \in {self_call("parse_parameter_list", advance(p))}})
                            ELSE Only({IF c.exc # "None" THEN c
                                       ELSE Ok(<<Parameter(c.node.value, None, NoNode, FALSE)>>, c.p)
                                       : c \in {consume(p, "IDENTIFIER", "Expected parameter name")}})}})

\* the while loop of parse_member_expression
member_loop(r) ==
    IF r.exc # "None" THEN r
    ELSE IF check(r.p, "DOT")
    THEN LET c == consume(advance(r.p), "IDENTIFIER", "Expected property name")
         IN IF c.exc # "None" THEN c
            ELSE member_loop(Ok([type |-> "MemberExpression", object |-> r.node,
                                 property |-> Identifier(c.node.value, None),
                                 computed |-> FALSE], c.p))
    ELSE IF check(r.p, "LEFT_BRACKET")
    THEN LET prop == self_call("parse_expression", advance(r.p))
         IN IF prop.exc # "None" THEN prop
            ELSE LET c == consume(prop.p, "RIGHT_BRACKET", "Expected ']'")
                 IN IF c.exc # "None" THEN c
                    ELSE member_loop(Ok([type |-> "MemberExpression", object |-> r.node,
                                         property |-> prop.node, computed |-> TRUE], c.p))
    ELSE r

parse_member_expression(p) == member_loop(self_call("parse_primary_expression", p))

\* the while loop of parse_array_pattern
array_pattern_loop(p, elements) ==
    IF ~check(p, "RIGHT_BRACKET") /\ ~is_at_end(p)
    THEN IF check(p, "DOT_DOT_DOT")
         THEN Only({IF c.exc # "None" THEN c
                    ELSE Ok(Append(elements,
                                   [type |-> "RestElement",
                                    argument |-> Identifier(c.node.value, None)]), c.p)
                    : c \in {consume(advance(p), "IDENTIFIER", "Expected identifier after '...'")}})
         ELSE Only({IF e.exc # "None" THEN e
                    ELSE IF check(e.p, "RIGHT_BRACKET") \/ check(e.p, "COMMA")
                    THEN array_pattern_loop(match(e.p, "COMMA"), Append(elements, e.node))
                    ELSE Ok(Append(elements, e.node), e.p)
                    : e \in {IF check(p, "COMMA") THEN Ok(NoNode, advance(p))
                             ELSE IF check(p, "IDENTIFIER")
                             THEN Ok(Identifier(peek(p).value, None), advance(p))
                             ELSE IF check(p, "LEFT_BRACKET") THEN self_call("parse_array_pattern", p)
                             ELSE IF check(p, "LEFT_BRACE") THEN self_call("parse_object_pattern", p)
                             ELSE Raise("ParseError",
                                        "Expected identifier or pattern in array destructuring", p)}})
    ELSE Ok(elements, p)

parse_array_pattern(p) ==
    Only({IF open.exc # "None" THEN open
          ELSE Only({IF elements.exc # "None" THEN elements
                     ELSE Only({IF c.exc # "None" THEN c
                                ELSE Ok([type |-> "ArrayPattern", elements |-> elements.node], c.p)
                                : c \in {consume(elements.p, "RIGHT_BRACKET", "Expected ']'")}})
                     : elements \in {array_pattern_loop(open.p, <<>>)}})
          : open \in {consume(p, "LEFT_BRACKET", "Expected '['")}})

\* the while loop of parse_object_pattern
object_pattern_loop(p, properties) ==
    IF ~check(p, "RIGHT_BRACE") /\ ~is_at_end(p)
    THEN IF check(p, "DOT_DOT_DOT")
         THEN Only({IF c.exc # "None" THEN c
                    ELSE Ok(Append(properties,
                                   [type |-> "RestElement",
                                    argument |-> Identifier(c.node.value, None)]), c.p)
                    : c \in {consume(advance(p), "IDENTIFIER", "Expected identifier after '...'")}})
         ELSE Only({IF k.exc # "None" THEN k
                    ELSE Only({Only({IF prop.exc # "None" THEN prop
                                     ELSE IF check(prop.p, "RIGHT_BRACE") \/ check(prop.p, "COMMA")
                                     THEN object_pattern_loop(match(prop.p, "COMMA"),
                                                              Append(properties, prop.node))
                                     ELSE Ok(Append(properties, prop.node), prop.p)
                                     : prop \in {IF check(k.p, "COLON")
                                                 THEN Only({Only({IF value.exc # "None" THEN value
                                                                  ELSE Ok(Property(key, value.node, FALSE, FALSE, FALSE),
                                                                          value.p)
                                                                  : value \in {IF check(p1, "IDENTIFIER")
                                                                               THEN Ok(Identifier(peek(p1).value, None), advance(p1))
                                                                               ELSE IF check(p1, "LEFT_BRACKET")
                                                                               THEN self_call("parse_array_pattern", p1)
                                                                               ELSE IF check(p1, "LEFT_BRACE")
                                                                               THEN self_call("parse_object_pattern", p1)
                                                                               ELSE Raise("ParseError",
                                                                                        "Expected identifier or pattern after ':'", p1)}})
                                                            : p1 \in {advance(k.p)}})
                                                 ELSE Ok(Property(key, key, FALSE, TRUE, FALSE), k.p)}})
                               : key \in {Identifier(k.node.value, None)}})
                    : k \in {consume(p, "IDENTIFIER", "Expected property name")}})
    ELSE Ok(properties, p)

parse_object_pattern(p) ==
    Only({IF open.exc # "None" THEN open
          ELSE Only({IF properties.exc # "None" THEN properties
                     ELSE Only({IF c.exc # "None" THEN c
                                ELSE Ok([type |-> "ObjectPattern",
                                         properties |-> properties.node], c.p)
                                : c \in {consume(properties.p, "RIGHT_BRACE", "Expected '}'")}})
                     : properties \in {object_pattern_loop(open.p, <<>>)}})
          : open \in {consume(p, "LEFT_BRACE", "Expected '{'")}})

\* the while self.match(COMMA) loop of parse_type_annotation
generic_args(p, args) ==
    IF check(p, "COMMA")
    THEN LET a == self_call("parse_type_annotation", advance(p))
         IN IF a.exc # "None" THEN a ELSE generic_args(a.p, Append(args, a.node))
    ELSE Ok(args, p)

\* parse_type_annotation: node is the type string
parse_type_annotation(p) ==
    IF ~check(p, "IDENTIFIER") /\ ~is_type_token(p)
    THEN Raise("ParseError", "Expected type in type annotation", p)
    ELSE LET base_type == peek(p).value
             p1 == advance(p)
         IN IF check(p1, "LESS")
            THEN LET first == self_call("parse_type_annotation", advance(p1))
                 IN IF first.exc # "None" THEN first
                    ELSE LET rest == generic_args(first.p, <<first.node>>)
                         IN IF rest.exc # "None" THEN rest
                            ELSE LET c == consume(rest.p, "GREATER",
                                            "Expected '>' after generic type arguments")
                                 IN IF c.exc # "None" THEN c
                                    ELSE Ok(base_type \o Str("<")
                                            \o Join(rest.node, Str(", ")) \o Str(">"), c.p)
            ELSE Ok(base_type, p1)

\* the optional return type / parameter type: ": type" where the colon is
\* consumed even when no type follows
optional_type(p) ==
    IF check(p, "COLON")
    THEN LET p1 == advance(p)
         IN IF check(p1, "IDENTIFIER") \/ is_type_token(p1)
            THEN Ok(peek(p1).value, advance(p1))
            ELSE Ok(None, p1)
    ELSE Ok(None, p)

\* the while loop of parse_parameter_list
parameter_loop(p, parameters) ==
    IF ~check(p, "RIGHT_PAREN") /\ ~is_at_end(p)
    THEN IF check(p, "DOT_DOT_DOT")
         THEN Only({IF c.exc # "None" THEN c
                    ELSE Ok(Append(parameters, Parameter(c.node.value, None, NoNode, TRUE)), c.p)
                    : c \in {consume(advance(p), "IDENTIFIER",
                                     "Expected parameter name after '...'")}})
         ELSE Only({IF c.exc # "None" THEN c
                    ELSE Only({Only({IF dv.exc # "None" THEN dv
                                     ELSE Only({IF check(dv.p, "COMMA")
                                                THEN parameter_loop(advance(dv.p), ps)
                                                ELSE Ok(ps, dv.p)
                                                : ps \in {Append(parameters,
                                                             Parameter(c.node.value, ty.node, dv.node, FALSE))}})
                                     : dv \in {IF check(ty.p, "ASSIGN")
                                               THEN self_call("parse_assignment_expression", advance(ty.p))
                                               ELSE Ok(NoNode, ty.p)}})
                               : ty \in {optional_type(c.p)}})
                    : c \in {consume(p, "IDENTIFIER", "Expected parameter name")}})
    ELSE Ok(parameters, p)

parse_parameter_list(p) == parameter_loop(p, <<>>)

\* the while loop of parse_block_statement and of the class body's NEWLINE skip
block_body(p, statements) ==
    IF ~check(p, "RIGHT_BRACE") /\ ~is_at_end(p)
    THEN IF check(p, "NEWLINE") THEN block_body(advance(p), statements)
         ELSE LET stmt == self_call("parse_statement", p)
              IN IF stmt.exc # "None" THEN stmt
                 ELSE block_body(stmt.p, Append(statements, stmt.node))
    ELSE Ok(statements, p)

parse_block_statement(p) ==
    LET open == consume(p, "LEFT_BRACE", "Expected '{'")
    IN IF open.exc # "None" THEN open
       ELSE LET statements == block_body(open.p, <<>>)
            IN IF statements.exc # "None" THEN statements
               ELSE LET c == consume(statements.p, "RIGHT_BRACE", "Expected '}'")
                    IN IF c.exc # "None" THEN c
                       ELSE Ok(BlockStatement(statements.node), c.p)

\* the while True loop of parse_variable_declaration
var_declarators(p, kind, declarations) ==
    Only({IF id.exc # "None" THEN id
          ELSE Only({IF init.exc # "None" THEN init
                     ELSE Only({IF check(init.p, "COMMA")
                                THEN var_declarators(advance(init.p), kind, ds)
                                ELSE Ok(ds, init.p)
                                : ds \in {Append(declarations,
                                              VariableDeclarator(id.node.id_node, init.node,
                                                                 id.node.type_annotation))}})
                     : init \in {IF check(id.p, "ASSIGN")
                                 THEN self_call("parse_assignment_expression", advance(id.p))
                                 ELSE IF kind = "const"
                                 THEN Raise("ParseError",
                                            "const declaration must have initializer", id.p)
                                 ELSE Ok(NoNode, id.p)}})
          : id \in {IF check(p, "IDENTIFIER")
                    THEN Only({IF check(p1, "COLON")
                               THEN Only({IF ty.exc # "None" THEN ty
                                          ELSE Ok([id_node |-> Identifier(peek(p).value, None),
                                                   type_annotation |-> ty.node], ty.p)
                                          : ty \in {self_call("parse_type_annotation", advance(p1))}})
                               ELSE Ok([id_node |-> Identifier(peek(p).value, None),
                                        type_annotation |-> None], p1)
                               : p1 \in {advance(p)}})
                    ELSE IF check(p, "LEFT_BRACKET")
                    THEN Only({IF pat.exc # "None" THEN pat
                               ELSE Ok([id_node |-> pat.node, type_annotation |-> None], pat.p)
                               : pat \in {self_call("parse_array_pattern", p)}})
                    ELSE IF check(p, "LEFT_BRACE")
                    THEN Only({IF pat.exc # "None" THEN pat
                               ELSE Ok([id_node |-> pat.node, type_annotation |-> None], pat.p)
                               : pat \in {self_call("parse_object_pattern", p)}})
                    ELSE Raise("ParseError",
                               "Expected identifier or destructuring pattern in " \o kind
                               \o " declaration", p)}})

parse_variable_declaration(p, kind) ==
    Only({IF declarations.exc # "None" THEN declarations
          ELSE Ok(VariableDeclaration(Str(kind), declarations.node),
                  consume_statement_terminator(declarations.p))
          : declarations \in {var_declarators(p, kind, <<>>)}})

parse_if_statement(p) ==
    LET open == consume(p, "LEFT_PAREN", "Expected '(' after 'if'")
    IN IF open.exc # "None" THEN open
       ELSE LET test == self_call("parse_expression", open.p)
            IN IF test.exc # "None" THEN test
               ELSE LET close == consume(test.p, "RIGHT_PAREN",
                                         "Expected ')' after if condition")
                    IN IF close.exc # "None" THEN close
                       ELSE LET consequent == self_call("parse_statement", close.p)
                            IN IF consequent.exc # "None" THEN consequent
                               ELSE LET alternate ==
                                          IF check(consequent.p, "ELSE")
                                          THEN self_call("parse_statement", advance(consequent.p))
                                          ELSE Ok(NoNode, consequent.p)
                                    IN IF alternate.exc # "None" THEN alternate
                                       ELSE Ok([type |-> "IfStatement", test |-> test.node,
                                                consequent |-> consequent.node,
                                                alternate |-> alternate.node], alternate.p)

\* loop_body as it would be if in_loop were left set after the loop
loop_body_leaving_flag(p) == self_call("parse_statement", [p EXCEPT !.in_loop = TRUE])

\* the loop body shared by the three loop statements: in_loop is set for the
\* body and the old value is put back afterwards
loop_body(p) ==
    LET old_in_loop == p.in_loop
        body == self_call("parse_statement", [p EXCEPT !.in_loop = TRUE])
    IN IF body.exc # "None" THEN body
       ELSE Ok(body.node, [body.p EXCEPT !.in_loop = old_in_loop])

parse_for_of_statement(p) ==
    LET declared == check_any(p, {"LET", "CONST", "VAR"})
        kind == peek(p).value
        name == consume(IF declared THEN advance(p) ELSE p, "IDENTIFIER",
                        "Expected identifier")
    IN IF name.exc # "None" THEN name
       ELSE LET left == IF declared
                        THEN VariableDeclaration(kind,
                                 <<VariableDeclarator(Identifier(name.node.value, None),
                                                      NoNode, None)>>)
                        ELSE Identifier(name.node.value, None)
                of == consume(name.p, "OF", "Expected 'of' in for-of loop")
            IN IF of.exc # "None" THEN of
               ELSE LET right == self_call("parse_expression", of.p)
                    IN IF right.exc # "None" THEN right
                       ELSE LET close == consume(right.p, "RIGHT_PAREN",
                                                 "Expected ')' after for-of")
                            IN IF close.exc # "None" THEN close
                               ELSE LET body == loop_body(close.p)
                                    IN IF body.exc # "None" THEN body
                                       ELSE Ok([type |-> "ForOfStatement", left |-> left,
                                                right |-> right.node,
                                                body |-> body.node], body.p)

parse_expression_with_context(p, context) ==
    LET r == self_call("parse_expression", p)
    IN IF r.exc = "ParseError"
       THEN Raise("ParseError", "In " \o context \o ": " \o ExcStr(r), r.p)
       ELSE r

\* the initialization clause of _parse_traditional_for_statement
for_init(p) ==
    IF check(p, "SEMICOLON") THEN Ok(NoNode, p)
    ELSE IF check_any(p, {"LET", "CONST", "VAR"})
    THEN Only({Only({IF name_token.exc # "None" THEN name_token
                     ELSE IF check(name_token.p, "ASSIGN")
                     THEN Only({IF value.exc # "None" THEN value
                                ELSE Ok(VariableDeclaration(kind_token.value,
                                            <<VariableDeclarator(
                                                  Identifier(name_token.node.value, None),
                                                  value.node, None)>>), value.p)
                                : value \in {parse_expression_with_context(advance(name_token.p),
                                                                           "variable initializer")}})
                     ELSE Ok(VariableDeclaration(kind_token.value,
                                 <<VariableDeclarator(Identifier(name_token.node.value, None),
                                                      NoNode, None)>>), name_token.p)
                     : name_token \in {consume(advance(p), "IDENTIFIER", "Expected variable name")}})
               : kind_token \in {peek(p)}})
    ELSE parse_expression_with_context(p, "for-loop initialization")

parse_traditional_for_statement(p) ==
    Only({IF init.exc # "None" THEN init
          ELSE Only({IF s1.exc # "None" THEN s1
                     ELSE Only({IF test.exc # "None" THEN test
                                ELSE Only({IF s2.exc # "None" THEN s2
                                           ELSE Only({IF update.exc # "None" THEN update
                                                      ELSE Only({IF close.exc # "None" THEN close
                                                                 ELSE Only({IF body.exc # "None" THEN body
                                                                            ELSE Ok([type |-> "ForStatement",
                                                                                     init |-> init.node,
                                                                                     test |-> test.node,
                                                                                     update |-> update.node,
                                                                                     body |-> body.node], body.p)
                                                                            : body \in {loop_body(close.p)}})
                                                                 : close \in {consume(update.p, "RIGHT_PAREN",
                                                                           "Expected ')' after for-loop clauses")}})
                                                      : update \in {IF ~check(s2.p, "RIGHT_PAREN")
                                                                    THEN parse_expression_with_context(s2.p,
                                                                             "for-loop update")
                                                                    ELSE Ok(NoNode, s2.p)}})
                                           : s2 \in {consume(test.p, "SEMICOLON",
                                                             "Expected ';' after for-loop condition")}})
                                : test \in {IF ~check(s1.p, "SEMICOLON")
                                            THEN parse_expression_with_context(s1.p, "for-loop condition")
                                            ELSE Ok(NoNode, s1.p)}})
                     : s1 \in {consume(init.p, "SEMICOLON", "Expected ';' after for-loop initializer")}})
          : init \in {for_init(p)}})

parse_for_statement(p) ==
    LET open == consume(p, "LEFT_PAREN", "Expected '(' after 'for'")
    IN IF open.exc # "None" THEN open
       ELSE LET is_for_of == is_for_of_pattern(open.p)
            IN IF is_for_of.result THEN self_call("parse_for_of_statement", is_for_of.p)
               ELSE self_call("parse_traditional_for_statement", is_for_of.p)

parse_while_statement(p) ==
    LET open == consume(p, "LEFT_PAREN", "Expected '(' after 'while'")
    IN IF open.exc # "None" THEN open
       ELSE LET test == self_call("parse_expression", open.p)
            IN IF test.exc # "None" THEN test
               ELSE LET close == consume(test.p, "RIGHT_PAREN",
                                         "Expected ')' after while condition")
                    IN IF close.exc # "None" THEN close
                       ELSE LET body == loop_body(close.p)
                            IN IF body.exc # "None" THEN body
                               ELSE Ok([type |-> "WhileStatement", test |-> test.node,
                                        body |-> body.node], body.p)

parse_try_statement(p) ==
    Only({IF block.exc # "None" THEN block
          ELSE Only({IF handler.exc # "None" THEN handler
                     ELSE Only({IF finalizer.exc # "None" THEN finalizer
                                ELSE IF handler.node = NoNode /\ finalizer.node = NoNode
                                THEN Raise("ParseError", "Missing catch or finally after try",
                                           finalizer.p)
                                ELSE Ok([type |-> "TryStatement", block |-> block.node,
                                         handler |-> handler.node,
                                         finalizer |-> finalizer.node], finalizer.p)
                                : finalizer \in {IF check(handler.p, "FINALLY")
                                                 THEN self_call("parse_block_statement", advance(handler.p))
                                                 ELSE Ok(NoNode, handler.p)}})
                     : handler \in {IF check(block.p, "CATCH")
                                    THEN Only({Only({Only({IF param.exc # "None" THEN param
                                                           ELSE Only({IF body.exc # "None" THEN body
                                                                      ELSE Ok([type |-> "CatchClause",
                                                                               param |-> IF check(p1, "LEFT_PAREN")
                                                                                            /\ check(p2, "IDENTIFIER")
                                                                                         THEN Identifier(peek(p2).value, None)
                                                                                         ELSE NoNode,
                                                                               body |-> body.node], body.p)
                                                                      : body \in {self_call("parse_block_statement", param.p)}})
                                                           : param \in {IF check(p1, "LEFT_PAREN")
                                                                        THEN IF check(p2, "IDENTIFIER")
                                                                             THEN consume(advance(p2), "RIGHT_PAREN",
                                                                                      "Expected ')' after catch parameter")
                                                                             ELSE consume(p2, "RIGHT_PAREN",
                                                                                      "Expected ')' after catch parameter")
                                                                        ELSE Ok(NoNode, p1)}})
                                                     : p2 \in {match(p1, "LEFT_PAREN")}})
                                               : p1 \in {advance(block.p)}})
                                    ELSE Ok(NoNode, block.p)}})
          : block \in {self_call("parse_block_statement", p)}})

\* the body of a function or method: in_function is set for the block and
\* the old value is put back afterwards
function_body(p) ==
    LET old_in_function == p.in_function
        body == self_call("parse_block_statement", [p EXCEPT !.in_function = TRUE])
    IN IF body.exc # "None" THEN body
       ELSE Ok(body.node, [body.p EXCEPT !.in_function = old_in_function])

\* name ( parameters ) [: type] body, shared by parse_function_declaration
\* and parse_method_definition; name_message and paren_message are their texts
function_rest(p, name_message, open_message, close_message) ==
    LET name == consume(p, "IDENTIFIER", name_message)
    IN IF name.exc # "None" THEN name
       ELSE LET open == consume(name.p, "LEFT_PAREN", open_message)
            IN IF open.exc # "None" THEN open
               ELSE LET parameters == self_call("parse_parameter_list", open.p)
                    IN IF parameters.exc # "None" THEN parameters
                       ELSE LET close == consume(parameters.p, "RIGHT_PAREN", close_message)
                            IN IF close.exc # "None" THEN close
                               ELSE LET return_type == optional_type(close.p)
                                        body == function_body(return_type.p)
                                    IN IF body.exc # "None" THEN body
                                       ELSE Ok(FunctionDeclaration(name.node.value,
                                                   parameters.node, body.node,
                                                   return_type.node, FALSE), body.p)

parse_function_declaration(p) ==
    function_rest(p, "Expected function name", "Expected '(' after function name",
                  "Expected ')' after parameters")

parse_method_definition(p) ==
    Only({Only({Only({Only({IF func.exc # "None" THEN func
                            ELSE Ok([type |-> "MethodDefinition", key |-> Identifier(func.node.name, None),
                                     value |-> func.node, kind |-> kind, static |-> static], func.p)
                            : func \in {function_rest(p1, "Expected method name", "Expected '(' after method name",
                                                      "Expected ')' after method parameters")}})
                      : kind \in {IF check(p1, "IDENTIFIER") /\ peek(p1).value = Str("constructor")
                                  THEN "constructor" ELSE "method"}})
                : p1 \in {match(p, "STATIC")}})
          : static \in {check(p, "STATIC")}})

\* the while loop of parse_class_declaration
class_body(p, methods) ==
    IF ~check(p, "RIGHT_BRACE") /\ ~is_at_end(p)
    THEN IF check(p, "NEWLINE") THEN class_body(advance(p), methods)
         ELSE LET method == self_call("parse_method_definition", p)
              IN IF method.exc # "None" THEN method
                 ELSE class_body(method.p, Append(methods, method.node))
    ELSE Ok(methods, p)

parse_class_declaration(p) ==
    Only({IF name.exc # "None" THEN name
          ELSE Only({IF superclass.exc # "None" THEN superclass
                     ELSE Only({IF open.exc # "None" THEN open
                                ELSE Only({Only({IF methods.exc # "None" THEN methods
                                                 ELSE Only({IF close.exc # "None" THEN close
                                                            ELSE Ok([type |-> "ClassDeclaration",
                                                                     name |-> name.node.value,
                                                                     superclass |-> superclass.node,
                                                                     body |-> methods.node], close.p)
                                                            : close \in {consume([methods.p EXCEPT
                                                                                     !.in_class = old_in_class],
                                                                                 "RIGHT_BRACE",
                                                                                 "Expected '}' after class body")}})
                                                 : methods \in {class_body([open.p EXCEPT !.in_class = TRUE],
                                                                           <<>>)}})
                                           : old_in_class \in {open.p.in_class}})
                                : open \in {consume(superclass.p, "LEFT_BRACE",
                                                    "Expected '{' before class body")}})
                     : superclass \in {IF check(name.p, "EXTENDS")
                                       THEN Only({IF c.exc # "None" THEN c
                                                  ELSE Ok(Identifier(c.node.value, None), c.p)
                                                  : c \in {consume(advance(name.p), "IDENTIFIER",
                                                                   "Expected superclass name")}})
                                       ELSE Ok(NoNode, name.p)}})
          : name \in {consume(p, "IDENTIFIER", "Expected class name")}})

ReturnStatement(argument) == [type |-> "ReturnStatement", argument |-> argument]

parse_mathematical_function(p) ==
    LET name == consume(p, "IDENTIFIER", "Expected function name")
    IN IF name.exc # "None" THEN name
       ELSE LET open == consume(name.p, "LEFT_PAREN", "Expected '(' after function name")
            IN IF open.exc # "None" THEN open
               ELSE LET parameters == self_call("parse_parameter_list", open.p)
                    IN IF parameters.exc # "None" THEN parameters
                       ELSE LET close == consume(parameters.p, "RIGHT_PAREN",
                                                 "Expected ')' after parameters")
                            IN IF close.exc # "None" THEN close
                               ELSE LET eq == consume(close.p, "ASSIGN",
                                                "Expected '=' in mathematical function")
                                    IN IF eq.exc # "None" THEN eq
                                       ELSE LET expr == self_call("parse_expression", eq.p)
                                            IN IF expr.exc # "None" THEN expr
                                               ELSE Ok(FunctionDeclaration(name.node.value,
                                                           parameters.node,
                                                           BlockStatement(
                                                             <<ReturnStatement(expr.node)>>),
                                                           None, TRUE),
                                                       consume_statement_terminator(expr.p))

parse_return_statement(p) ==
    IF ~p.in_function THEN Raise("ParseError", "return statement outside function", p)
    ELSE LET argument == IF ~check_statement_terminator(p) THEN self_call("parse_expression", p)
                         ELSE Ok(NoNode, p)
         IN IF argument.exc # "None" THEN argument
            ELSE Ok(ReturnStatement(argument.node),
                    consume_statement_terminator(argument.p))

parse_break_statement(p) ==
    IF ~p.in_loop THEN Raise("ParseError", "break statement outside loop", p)
    ELSE Ok([type |-> "BreakStatement"], consume_statement_terminator(p))

parse_continue_statement(p) ==
    IF ~p.in_loop THEN Raise("ParseError", "continue statement outside loop", p)
    ELSE Ok([type |-> "ContinueStatement"], consume_statement_terminator(p))

parse_throw_statement(p) ==
    IF check_statement_terminator(p)
    THEN Raise("ParseError", "throw statement missing expression", p)
    ELSE LET argument == self_call("parse_expression", p)
         IN IF argument.exc # "None" THEN argument
            ELSE Ok([type |-> "ThrowStatement", argument |-> argument.node],
                    consume_statement_terminator(argument.p))

parse_expression_statement(p) ==
    LET expr == self_call("parse_expression", p)
    IN IF expr.exc # "None" THEN expr
       ELSE Ok([type |-> "ExpressionStatement", expression |-> expr.node],
               consume_statement_terminator(expr.p))

\* the try block of parse_statement
parse_statement_body(p) ==
    CASE check(p, "LET") -> parse_variable_declaration(advance(p), "let")
      [] check(p, "CONST") -> parse_variable_declaration(advance(p), "const")
      [] check(p, "VAR") -> parse_variable_declaration(advance(p), "var")
      [] check(p, "IF") -> self_call("parse_if_statement", advance(p))
      [] check(p, "FOR") -> self_call("parse_for_statement", advance(p))
      [] check(p, "WHILE") -> self_call("parse_while_statement", advance(p))
      [] check(p, "TRY") -> self_call("parse_try_statement", advance(p))
      [] check(p, "FAST") ->
           IF check(advance(p), "FUNCTION")
           THEN self_call("parse_function_declaration", advance(advance(p)))
           ELSE Raise("AttributeError",
                      "'EnhancedParser' object has no attribute 'error'", advance(p))
      [] check(p, "FUNCTION") -> self_call("parse_function_declaration", advance(p))
      [] check(p, "CLASS") -> self_call("parse_class_declaration", advance(p))
      [] check(p, "RETURN") -> self_call("parse_return_statement", advance(p))
      [] check(p, "BREAK") -> parse_break_statement(advance(p))
      [] check(p, "CONTINUE") -> parse_continue_statement(advance(p))
      [] check(p, "THROW") -> self_call("parse_throw_statement", advance(p))
      [] check(p, "LEFT_BRACE") -> self_call("parse_block_statement", p)
      [] check(p, "IDENTIFIER") /\ is_mathematical_function(p) ->
           self_call("parse_mathematical_function", p)
      [] OTHER -> self_call("parse_expression_statement", p)

\* parse_statement: any exception other than ParseError becomes a ParseError
parse_statement(p) ==
    LET r == self_call("parse_statement_body", p)
    IN IF r.exc \in {"None", "ParseError"} THEN r
       ELSE Raise("ParseError", "Unexpected error parsing statement: " \o ExcStr(r), r.p)

RECURSIVE program_loop(_, _)
\* the while loop of parse_program
program_loop(p, statements) ==
    IF ~is_at_end(p)
    THEN IF check(p, "NEWLINE") THEN program_loop(advance(p), statements)
         ELSE LET stmt == self_call("parse_statement", p)
              IN IF stmt.exc # "None" THEN stmt
                 ELSE program_loop(stmt.p, Append(statements, stmt.node))
    ELSE Ok([type |-> "Program", statements |-> statements], p)

parse_program(p) == program_loop(p, <<>>)

\* str(e) of a LexerError
LexerErrorStr(err) ==
    "Lexer Error at line " \o Flat(int_str(err.line)) \o ", column "
    \o Flat(int_str(err.column)) \o ": " \o err.message

\* EnhancedParser.parse with filename "<string>": every exception of the
\* lexer or the parser is raised again as a ParseError naming the file
parse(source) ==
    Only({IF lx.err.kind # "None"
          THEN Raise("ParseError", "Failed to parse <string>: " \o LexerErrorStr(lx.err),
                     ParserInit(<<>>))
          ELSE Only({IF r.exc # "None"
                     THEN Raise("ParseError", "Failed to parse <string>: " \o ExcStr(r),
                                r.p)
                     ELSE r
                     : r \in {self_call("parse_program", ParserInit(lx.tokens))}})
          : lx \in {tokenize_source(source)}})

parse_source(source) == parse(source)

(***************************************************************************)
(* Code generator: src/src/transpiler/enhanced_transpiler.py               *)
(***************************************************************************)

NL == <<"\n">>

\* an AttributeError raised while generating: the marker stands where the
\* value would have been written and travels outwards with the exception
AttributeErrorMark(class) == <<"<AttributeError:" \o class \o ">">>

RECURSIVE Split(_, _)
\* s.split(sep) for a one-character separator
Split(s, sep) ==
    LET i == Find(s, <<sep>>, 0)
    IN IF i = -1 THEN <<s>>
       ELSE <<Slice(s, 0, i)>> \o Split(Slice(s, i + 1, Len(s)), sep)

indent_code(code) ==
    IF strip(code) = <<>> THEN code
    ELSE LET lines == Split(code, "\n")
         IN Join([i \in 1..Len(lines) |->
                     IF strip(lines[i]) # <<>> THEN Str("  ") \o lines[i] ELSE lines[i]],
                 NL)

ARRAY_METHODS ==
    {Str("map"), Str("filter"), Str("reduce"), Str("forEach"), Str("find"), Str("some"),
     Str("every"), Str("indexOf"), Str("includes"), Str("slice"), Str("concat")}

StringMethods == {Str("toString"), Str("substring"), Str("charAt"), Str("slice")}

\* [p.name for p in parameters] joined with ", "
param_str(parameters) ==
    Join([i \in 1..Len(parameters) |-> parameters[i].name], Str(", "))

\* the lines of a statement list that are kept: code.strip() is not empty
kept_lines(codes) == SelectSeq(codes, LAMBDA code : strip(code) # <<>>)

\* is_string_concatenation without the look into nested + expressions
is_string_concatenation_shallow(left_node, right_node) ==
    LET string_literal(n) == n.type = "Literal" /\ n.vtype = "str"
        string_call(n) ==
            /\ n.type = "CallExpression"
            /\ n.callee.type = "MemberExpression"
            /\ n.callee.property.type = "Identifier"
            /\ n.callee.property.name \in StringMethods
    IN \/ string_literal(left_node) \/ string_literal(right_node)
       \/ left_node.type = "TemplateLiteral" \/ right_node.type = "TemplateLiteral"
       \/ string_call(left_node) \/ string_call(right_node)

RECURSIVE is_string_concatenation(_, _)
is_string_concatenation(left_node, right_node) ==
    LET string_literal(n) == n.type = "Literal" /\ n.vtype = "str"
        string_call(n) ==
            /\ n.type = "CallExpression"
            /\ n.callee.type = "MemberExpression"
            /\ n.callee.property.type = "Identifier"
            /\ n.callee.property.name \in StringMethods
        plus(n) == n.type = "BinaryExpression" /\ n.operator = Str("+")
    IN IF string_literal(left_node) \/ string_literal(right_node) THEN TRUE
       ELSE IF left_node.type = "TemplateLiteral" \/ right_node.type = "TemplateLiteral"
       THEN TRUE
       ELSE IF string_call(left_node) \/ string_call(right_node) THEN TRUE
       ELSE IF plus(left_node) /\ is_string_concatenation(left_node.left, left_node.right)
       THEN TRUE
       ELSE plus(right_node) /\ is_string_concatenation(right_node.left, right_node.right)

visit_Identifier(node) == IF node.name = Str("this") THEN Str("self") ELSE node.name

visit_Literal(node) ==
    IF node.vtype = "str" THEN Str("\"") \o node.value \o Str("\"")
    ELSE IF node.vtype = "NoneType" THEN Str("nil")
    ELSE IF node.vtype = "bool"
    THEN IF node.value = Str("True") THEN Str("true") ELSE Str("false")
    ELSE node.value

visit_MathematicalFunction(node) ==
    LET expr_code == Str("nil")
    IN Str("local function ") \o node.name \o Str("(") \o param_str(node.parameters)
       \o Str(")") \o NL \o Str("  return ") \o expr_code \o NL \o Str("end")

RECURSIVE generate(_), generate_all(_), visit_Program(_), visit_FunctionDeclaration(_),
          visit_CallExpression(_), visit_TemplateLiteral(_), template_format(_, _),
          visit_ArrayExpression(_), visit_BinaryExpression(_),
          visit_VariableDeclaration(_), visit_IfStatement(_), visit_ForStatement(_),
          visit_ForOfStatement(_), visit_WhileStatement(_), visit_TryStatement(_),
          visit_ClassDeclaration(_), visit_NewExpression(_), visit_BlockStatement(_),
          visit_ReturnStatement(_), visit_ObjectExpression(_),
          visit_ArrowFunctionExpression(_), visit_AssignmentExpression(_),
          visit_UnaryExpression(_), visit_UpdateExpression(_),
          visit_ConditionalExpression(_), visit_MemberExpression(_),
          visit_ExpressionStatement(_)

\* [self.generate(n) for n in nodes]
generate_all(nodes) == [i \in 1..Len(nodes) |-> generate(nodes[i])]

visit_Program(node) ==
    Join(<<Str("-- Generated by LUASCRIPT Enhanced Transpiler"),
           Str("-- Mathematical programming with Unicode operator support"),
           <<>>>> \o kept_lines(generate_all(node.statements)), NL)

visit_FunctionDeclaration(node) ==
    IF node.is_mathematical THEN visit_MathematicalFunction(node)
    ELSE LET body_code == generate(node.body)
         IN Join(<<Str("function ") \o node.name \o Str("(")
                   \o param_str(node.parameters) \o Str(")")>>
                 \o (IF strip(body_code) # <<>> THEN <<indent_code(body_code)>> ELSE <<>>)
                 \o <<Str("end")>>, NL)

\* visit_CallExpression without the branch of the array methods
visit_CallExpression_without_array_methods(node) ==
    LET args_str == Join(generate_all(node.arguments), Str(", "))
    IN IF node.callee.type = "MemberExpression" /\ node.callee.property.type = "Identifier"
       THEN LET obj_code == generate(node.callee.object)
                method_name == node.callee.property.name
                object_is(name) == /\ node.callee.object.type = "Identifier"
                                   /\ node.callee.object.name = Str(name)
            IN IF object_is("Math")
               THEN Str("math.") \o method_name \o Str("(") \o args_str \o Str(")")
               ELSE IF object_is("console") /\ method_name = Str("log")
               THEN Str("print(") \o args_str \o Str(")")
               ELSE obj_code \o Str(":") \o method_name \o Str("(") \o args_str \o Str(")")
       ELSE generate(node.callee) \o Str("(") \o args_str \o Str(")")

visit_CallExpression(node) ==
    LET args_str == Join(generate_all(node.arguments), Str(", "))
    IN IF node.callee.type = "MemberExpression" /\ node.callee.property.type = "Identifier"
       THEN LET obj_code == generate(node.callee.object)
                method_name == node.callee.property.name
                object_is(name) == /\ node.callee.object.type = "Identifier"
                                   /\ node.callee.object.name = Str(name)
            IN IF object_is("Math")
               THEN Str("math.") \o method_name \o Str("(") \o args_str \o Str(")")
               ELSE IF object_is("console") /\ method_name = Str("log")
               THEN Str("print(") \o args_str \o Str(")")
               ELSE IF method_name \in ARRAY_METHODS
               THEN Str("_LS.") \o method_name \o Str("(")
                    \o Join(<<obj_code>> \o generate_all(node.arguments), Str(", "))
                    \o Str(")")
               ELSE obj_code \o Str(":") \o method_name \o Str("(") \o args_str \o Str(")")
       ELSE generate(node.callee) \o Str("(") \o args_str \o Str(")")

\* the for loop of visit_TemplateLiteral from index i on: the format string
template_format(node, i) ==
    IF i < Len(node.expressions)
    THEN (IF i < Len(node.quasis) THEN node.quasis[i + 1].value ELSE <<>>)
         \o Str("%s") \o template_format(node, i + 1)
    ELSE IF Len(node.quasis) > Len(node.expressions)
    THEN node.quasis[Len(node.quasis)].value
    ELSE <<>>

visit_TemplateLiteral(node) ==
    IF node.expressions = <<>>
    THEN IF node.quasis # <<>>
         THEN Str("\"") \o node.quasis[1].value \o Str("\"")
         ELSE Str("\"\"")
    ELSE Str("string.format(\"") \o template_format(node, 0) \o Str("\", ")
         \o Join(generate_all(node.expressions), Str(", ")) \o Str(")")

visit_ArrayExpression(node) ==
    Str("_LS.array({") \o Join(generate_all(node.elements), Str(", ")) \o Str("})")

visit_BinaryExpression(node) ==
    LET left == generate(node.left)
        right == generate(node.right)
        op == node.operator
        infix(lua_op) == Str("(") \o left \o Str(" ") \o lua_op \o Str(" ") \o right
                         \o Str(")")
    IN IF op = <<"<times>">> THEN infix(Str("*"))
       ELSE IF op = <<"<divide>">> THEN infix(Str("/"))
       ELSE IF op = <<"<minus>">> THEN infix(Str("-"))
       ELSE IF op = <<"<le>">> THEN infix(Str("<="))
       ELSE IF op = <<"<ge>">> THEN infix(Str(">="))
       ELSE IF op = <<"<ne>">> THEN infix(Str("~="))
       ELSE IF op = <<"<sqrt>">> THEN Str("math.sqrt(") \o right \o Str(")")
       ELSE IF op = Str("^") THEN infix(Str("^"))
       ELSE IF op = Str("+")
       THEN IF is_string_concatenation(node.left, node.right) THEN infix(Str(".."))
            ELSE infix(Str("+"))
       ELSE IF op = Str("||") THEN infix(Str("or"))
       ELSE IF op = Str("&&") THEN infix(Str("and"))
       ELSE IF op = Str("===") THEN infix(Str("=="))
       ELSE IF op = Str("!==") THEN infix(Str("~="))
       ELSE IF op = Str("==") THEN infix(Str("=="))
       ELSE IF op = Str("!=") THEN infix(Str("~="))
       ELSE infix(op)

\* declarator.id.name: an AttributeError for a destructuring pattern
declarator_name(declarator) ==
    IF declarator.id.type = "Identifier" THEN declarator.id.name
    ELSE AttributeErrorMark(declarator.id.type)

visit_VariableDeclaration(node) ==
    LET line(declarator) ==
            LET name == declarator_name(declarator)
            IN IF node.kind = Str("var")
               THEN IF declarator.init # NoNode
                    THEN name \o Str(" = ") \o generate(declarator.init)
                    ELSE name \o Str(" = nil")
               ELSE IF declarator.init # NoNode
                    THEN Str("local ") \o name \o Str(" = ") \o generate(declarator.init)
                    ELSE Str("local ") \o name
    IN Join([i \in 1..Len(node.declarations) |-> line(node.declarations[i])], NL)

visit_IfStatement(node) ==
    LET test_code == generate(node.test)
        consequent_code == generate(node.consequent)
        alternate_lines ==
            IF node.alternate = NoNode THEN <<>>
            ELSE LET alternate_code == generate(node.alternate)
                 IN IF node.alternate.type = "IfStatement"
                    THEN <<Str("else") \o Slice(alternate_code, 2, Len(alternate_code))>>
                    ELSE <<Str("else"), indent_code(alternate_code)>>
    IN Join(<<Str("if ") \o test_code \o Str(" then"), indent_code(consequent_code)>>
            \o alternate_lines \o <<Str("end")>>, NL)

visit_ForStatement(node) ==
    Join((IF node.init # NoNode THEN <<generate(node.init)>> ELSE <<>>)
         \o <<Str("while true do")>>
         \o (IF node.test # NoNode
             THEN <<Str("  if not (") \o generate(node.test) \o Str(") then break end")>>
             ELSE <<>>)
         \o <<indent_code(generate(node.body))>>
         \o (IF node.update # NoNode THEN <<Str("  ") \o generate(node.update)>> ELSE <<>>)
         \o <<Str("end")>>, NL)

\* visit_ForOfStatement iterating with pairs
visit_ForOfStatement_with_pairs(node) ==
    LET var_name == IF node.left.type = "VariableDeclaration"
                    THEN declarator_name(node.left.declarations[1])
                    ELSE node.left.name
        iterable_code == generate(node.right)
        body_code == generate(node.body)
    IN Join(<<Str("for _, ") \o var_name \o Str(" in pairs(") \o iterable_code
              \o Str(") do"),
              indent_code(body_code),
              Str("end")>>, NL)

visit_ForOfStatement(node) ==
    LET var_name == IF node.left.type = "VariableDeclaration"
                    THEN declarator_name(node.left.declarations[1])
                    ELSE node.left.name
        iterable_code == generate(node.right)
        body_code == generate(node.body)
    IN Join(<<Str("for _, ") \o var_name \o Str(" in ipairs(") \o iterable_code
              \o Str(") do"),
              indent_code(body_code),
              Str("end")>>, NL)

visit_WhileStatement(node) ==
    Join(<<Str("while ") \o generate(node.test) \o Str(" do"),
           indent_code(generate(node.body)),
           Str("end")>>, NL)

visit_TryStatement(node) ==
    Join(<<Str("local success, error = pcall(function()"),
           indent_code(generate(node.block)),
           Str("end)")>>
         \o (IF node.handler # NoNode
             THEN <<Str("if not success then")>>
                  \o (IF node.handler.param # NoNode
                      THEN <<Str("  local ") \o node.handler.param.name \o Str(" = error")>>
                      ELSE <<>>)
                  \o <<indent_code(generate(node.handler.body)), Str("end")>>
             ELSE <<>>)
         \o (IF node.finalizer # NoNode
             THEN <<Str("-- Finally block"), generate(node.finalizer)>>
             ELSE <<>>), NL)

\* visit_ClassDeclaration with the methods emitted before the constructor
visit_ClassDeclaration_methods_first(node) ==
    LET class_name == node.name
        constructors == SelectSeq(node.body, LAMBDA m : m.kind = "constructor")
        methods == SelectSeq(node.body, LAMBDA m : m.kind # "constructor")
        constructor_lines ==
            IF constructors = <<>> THEN <<>>
            ELSE LET constructor == constructors[Len(constructors)]
                 IN <<Str("function ") \o class_name \o Str(".new(")
                      \o param_str(constructor.value.parameters) \o Str(")"),
                      Str("  local self = setmetatable({}, ") \o class_name \o Str(")"),
                      indent_code(generate(constructor.value.body)),
                      Str("  return self"),
                      Str("end")>>
        method_lines(method) ==
            <<Str("function ") \o class_name \o Str(":") \o method.key.name \o Str("(")
              \o param_str(method.value.parameters) \o Str(")"),
              indent_code(generate(method.value.body)),
              Str("end")>>
        all_method_lines[i \in 0..Len(methods)] ==
            IF i = 0 THEN <<>> ELSE all_method_lines[i - 1] \o method_lines(methods[i])
    IN Join(<<Str("local ") \o class_name \o Str(" = {}"),
              class_name \o Str(".__index = ") \o class_name>>
            \o all_method_lines[Len(methods)] \o constructor_lines, NL)

visit_ClassDeclaration(node) ==
    LET class_name == node.name
        constructors == SelectSeq(node.body, LAMBDA m : m.kind = "constructor")
        methods == SelectSeq(node.body, LAMBDA m : m.kind # "constructor")
        constructor_lines ==
            IF constructors = <<>> THEN <<>>
            ELSE LET constructor == constructors[Len(constructors)]
                 IN <<Str("function ") \o class_name \o Str(".new(")
                      \o param_str(constructor.value.parameters) \o Str(")"),
                      Str("  local self = setmetatable({}, ") \o class_name \o Str(")"),
                      indent_code(generate(constructor.value.body)),
                      Str("  return self"),
                      Str("end")>>
        method_lines(method) ==
            <<Str("function ") \o class_name \o Str(":") \o method.key.name \o Str("(")
              \o param_str(method.value.parameters) \o Str(")"),
              indent_code(generate(method.value.body)),
              Str("end")>>
        all_method_lines[i \in 0..Len(methods)] ==
            IF i = 0 THEN <<>> ELSE all_method_lines[i - 1] \o method_lines(methods[i])
    IN Join(<<Str("local ") \o class_name \o Str(" = {}"),
              class_name \o Str(".__index = ") \o class_name>>
            \o constructor_lines \o all_method_lines[Len(methods)], NL)

visit_NewExpression(node) ==
    generate(node.callee) \o Str(".new(")
    \o Join(generate_all(node.arguments), Str(", ")) \o Str(")")

visit_BlockStatement(node) == Join(kept_lines(generate_all(node.statements)), NL)

visit_ReturnStatement(node) ==
    IF node.argument # NoNode THEN Str("return ") \o generate(node.argument)
    ELSE Str("return")

visit_BreakStatement(node) == Str("break")

visit_ContinueStatement(node) == Str("goto continue")

visit_ObjectExpression(node) ==
    IF node.properties = <<>> THEN Str("{}")
    ELSE LET line(prop) ==
                 LET key_code == generate(prop.key)
                     value_code == generate(prop.value)
                 IN IF ~prop.computed /\ prop.key.type = "Identifier"
                    THEN Str("  ") \o prop.key.name \o Str(" = ") \o value_code \o Str(",")
                    ELSE Str("  [") \o key_code \o Str("] = ") \o value_code \o Str(",")
         IN Join(<<Str("{")>>
                 \o [i \in 1..Len(node.properties) |-> line(node.properties[i])]
                 \o <<Str("}")>>, NL)

visit_ArrowFunctionExpression(node) ==
    LET body_code == generate(node.body)
    IN IF node.body.type = "BlockStatement"
       THEN Str("function(") \o param_str(node.parameters) \o Str(")") \o NL
            \o indent_code(body_code) \o NL \o Str("end")
       ELSE Str("function(") \o param_str(node.parameters) \o Str(") return ")
            \o body_code \o Str(" end")

visit_AssignmentExpression(node) ==
    LET left_code == generate(node.left)
        right_code == generate(node.right)
        compound(lua_op) == left_code \o Str(" = ") \o left_code \o Str(" ") \o lua_op
                            \o Str(" ") \o right_code
    IN IF node.operator = Str("=") THEN left_code \o Str(" = ") \o right_code
       ELSE IF node.operator = Str("+=") THEN compound(Str("+"))
       ELSE IF node.operator = Str("-=") THEN compound(Str("-"))
       ELSE IF node.operator = Str("*=") THEN compound(Str("*"))
       ELSE IF node.operator = Str("/=") THEN compound(Str("/"))
       ELSE left_code \o Str(" ") \o node.operator \o Str(" ") \o right_code

visit_UnaryExpression(node) ==
    LET arg_code == generate(node.argument)
    IN IF node.operator = Str("!") THEN Str("not ") \o arg_code
       ELSE IF node.operator = <<"<sqrt>">> THEN Str("math.sqrt(") \o arg_code \o Str(")")
       ELSE node.operator \o arg_code

visit_UpdateExpression(node) ==
    LET arg_code == generate(node.argument)
        lua_op == IF node.operator = Str("++") THEN Str("+") ELSE Str("-")
    IN IF node.operator \in {Str("++"), Str("--")}
       THEN IF node.prefix
            THEN Str("(") \o arg_code \o Str(" = ") \o arg_code \o Str(" ") \o lua_op
                 \o Str(" 1)")
            ELSE Str("(function() local temp = ") \o arg_code \o Str("; ") \o arg_code
                 \o Str(" = ") \o arg_code \o Str(" ") \o lua_op
                 \o Str(" 1; return temp end)()")
       ELSE node.operator \o arg_code

visit_ConditionalExpression(node) ==
    Str("(") \o generate(node.test) \o Str(" and ") \o generate(node.consequent)
    \o Str(" or ") \o generate(node.alternate) \o Str(")")

visit_MemberExpression(node) ==
    LET obj == IF node.object.type = "Identifier" /\ node.object.name = Str("Math")
               THEN Str("math") ELSE generate(node.object)
    IN IF ~node.computed /\ node.property.type = "Identifier"
       THEN obj \o Str(".") \o node.property.name
       ELSE obj \o Str("[") \o generate(node.property) \o Str("]")

visit_ExpressionStatement(node) == generate(node.expression)

\* type(node).__name__ for a node generate() has no visitor for
class_name_of(node) == IF node.type = "None" THEN "NoneType" ELSE node.type

generate(node) ==
    CASE node.type = "Program" -> visit_Program(node)
      [] node.type = "VariableDeclaration" -> visit_VariableDeclaration(node)
      [] node.type = "FunctionDeclaration" -> visit_FunctionDeclaration(node)
      [] node.type = "ClassDeclaration" -> visit_ClassDeclaration(node)
      [] node.type = "IfStatement" -> visit_IfStatement(node)
      [] node.type = "ForStatement" -> visit_ForStatement(node)
      [] node.type = "ForOfStatement" -> visit_ForOfStatement(node)
      [] node.type = "WhileStatement" -> visit_WhileStatement(node)
      [] node.type = "TryStatement" -> visit_TryStatement(node)
      [] node.type = "BlockStatement" -> visit_BlockStatement(node)
      [] node.type = "ReturnStatement" -> visit_ReturnStatement(node)
      [] node.type = "BreakStatement" -> visit_BreakStatement(node)
      [] node.type = "ContinueStatement" -> visit_ContinueStatement(node)
      [] node.type = "ExpressionStatement" -> visit_ExpressionStatement(node)
      [] node.type = "CallExpression" -> visit_CallExpression(node)
      [] node.type = "NewExpression" -> visit_NewExpression(node)
      [] node.type = "MemberExpression" -> visit_MemberExpression(node)
      [] node.type = "TemplateLiteral" -> visit_TemplateLiteral(node)
      [] node.type = "BinaryExpression" -> visit_BinaryExpression(node)
      [] node.type = "Identifier" -> visit_Identifier(node)
      [] node.type = "Literal" -> visit_Literal(node)
      [] node.type = "ArrayExpression" -> visit_ArrayExpression(node)
      [] node.type = "ObjectExpression" -> visit_ObjectExpression(node)
      [] node.type = "ArrowFunctionExpression" -> visit_ArrowFunctionExpression(node)
      [] node.type = "AssignmentExpression" -> visit_AssignmentExpression(node)
      [] node.type = "UnaryExpression" -> visit_UnaryExpression(node)
      [] node.type = "UpdateExpression" -> visit_UpdateExpression(node)
      [] node.type = "ConditionalExpression" -> visit_ConditionalExpression(node)
      [] OTHER -> Str("-- Unhandled node type: " \o class_name_of(node))

\* the import line with no blank line after it
runtime_import_no_blank_line == Str("local _LS = require(\"runtime/core/enhanced_runtime\")") \o NL

runtime_import == Str("local _LS = require(\"runtime/core/enhanced_runtime\")") \o NL \o NL

\* the first AttributeError marker in a generated text, "" when there is none
raised_in(code) ==
    LET marks == {i \in 1..Len(code) :
                     Len(code[i]) > 16 /\ SubSeq(code[i], 1, 16) = "<AttributeError:"}
    IN IF marks = {} THEN ""
       ELSE LET m == code[CHOOSE i \in marks : \A j \in marks : i <= j]
            IN "'" \o SubSeq(m, 17, Len(m) - 1) \o "' object has no attribute 'name'"

\* EnhancedTranspiler.transpile: lua is the text returned, or exc/msg the
\* TranspilerError every exception is raised again as
transpile(source) ==
    Only({IF lx.err.kind # "None"
          THEN [exc |-> "TranspilerError", lua |-> <<>>,
                msg |-> "Transpilation failed: " \o LexerErrorStr(lx.err)]
          ELSE Only({IF ast.exc # "None"
                     THEN [exc |-> "TranspilerError", lua |-> <<>>,
                           msg |-> "Transpilation failed: " \o ExcStr(ast)]
                     ELSE Only({IF raised_in(lua_code) # ""
                                THEN [exc |-> "TranspilerError", lua |-> <<>>,
                                      msg |-> "Transpilation failed: "
                                              \o raised_in(lua_code)]
                                ELSE [exc |-> "None", msg |-> "",
                                      lua |-> runtime_import \o lua_code]
                                : lua_code \in {generate(ast.node)}})
                     : ast \in {self_call("parse_program", ParserInit(lx.tokens))}})
          : lx \in {tokenize_source(source)}})

transpile_source(source) == transpile(source)

(***************************************************************************)
(* Provider adapter: src/sologit/orchestration/providers/anthropic_adapter.py *)
(***************************************************************************)

\* the class a built-in exception class is derived from
ExceptionBase(cls) ==
    CASE cls = "BaseException" -> "object"
      [] cls = "Exception" -> "BaseException"
      [] cls = "KeyboardInterrupt" -> "BaseException"
      [] cls = "SystemExit" -> "BaseException"
      [] cls = "GeneratorExit" -> "BaseException"
      [] cls = "RuntimeError" -> "Exception"
      [] cls = "ValueError" -> "Exception"
      [] cls = "OSError" -> "Exception"
      [] cls = "TimeoutError" -> "OSError"
      [] cls = "ProviderRequestError" -> "RuntimeError"

RECURSIVE issubclass(_, _)
\* is cls the class base or derived from it
issubclass(cls, base) ==
    IF cls = base THEN TRUE
    ELSE IF cls = "object" THEN FALSE
    ELSE issubclass(ExceptionBase(cls), base)

\* a dict with no items
EmptyDict == [k \in {} |-> ""]

\* dict.update: the items of d with those of e put over them
dict_update(d, e) ==
    [k \in DOMAIN d \cup DOMAIN e |-> IF k \in DOMAIN e THEN e[k] ELSE d[k]]

\* dict.setdefault: d with key set to value unless d has the key
dict_setdefault(d, key, value) ==
    IF key \in DOMAIN d THEN d ELSE dict_update(d, [k \in {key} |-> value])

\* Python values the client returns: a text, or a mapping with its items
PyStr(text) == [py |-> "str", text |-> text, items |-> EmptyDict]
PyDict(items) == [py |-> "dict", text |-> "", items |-> items]
PyNone == [py |-> "NoneType", text |-> "", items |-> EmptyDict]

\* _default_response_parser
default_response_parser(response) ==
    IF response.py = "dict" /\ "completion" \in DOMAIN response.items
    THEN PyStr(response.items["completion"])
    ELSE response

\* response_parser(response) of an adapter: None stands for no parser given,
\* "raw" for a parser that returns the response as it is
response_parser(name, response) ==
    IF name = "None" THEN default_response_parser(response) ELSE response

\* AnthropicAdapter(client, model, default_params, response_parser) after
\* __post_init__: the defaults hold the model unless they name one
AnthropicAdapter(client, model, default_params, parser) ==
    [client |-> client, model |-> model,
     mutable_defaults |-> dict_setdefault(default_params, "model", model),
     response_parser |-> parser]

\* with_default(**params): the copy of the adapter with the defaults extended
with_default(self, params) ==
    AnthropicAdapter(self.client, self.model, dict_update(self.mutable_defaults, params),
                     self.response_parser)

\* the except clause of invoke written as a bare except: every exception the
\* client raises is handled
handles_every_exception(error) == issubclass(error, "BaseException")

\* the except clause of invoke: does "except Exception" handle the error
handles(error) == issubclass(error, "Exception")

\* nothing raised and nothing returned
NoOutcome == [kind |-> "none", exc |-> "None", msg |-> "", cause |-> "None", value |-> PyNone]

\* AnthropicAdapter.invoke(prompt, **params) with a client that raises
\* client.error or returns client.response: the payload the client was
\* called with, what invoke returned or raised, and what it logged
invoke(self, prompt, params) ==
    LET payload == dict_setdefault(dict_update(self.mutable_defaults, params),
                                   "prompt", prompt)
    IN IF self.client.error # "None"
       THEN IF handles(self.client.error)
            THEN [payload |-> payload,
                  outcome |-> [kind |-> "raised", exc |-> "ProviderRequestError",
                               msg |-> "Anthropic request failed",
                               cause |-> self.client.error, value |-> PyNone],
                  logged |-> <<"Anthropic provider call failed">>]
            ELSE [payload |-> payload,
                  outcome |-> [kind |-> "raised", exc |-> self.client.error, msg |-> "",
                               cause |-> "None", value |-> PyNone],
                  logged |-> <<>>]
       ELSE [payload |-> payload,
             outcome |-> [kind |-> "returned", exc |-> "None", msg |-> "",
                          cause |-> "None",
                          value |-> response_parser(self.response_parser,
                                                    self.client.response)],
             logged |-> <<>>]

\* ---------------------------------------------------------------------------
\* The state machine: one source text and the module-level entry points
\* tokenize_source, parse_source and transpile_source applied to it.  Each
\* entry point builds its own lexer, parser and transpiler, so the calls are
\* independent and each is recorded with its result or its exception.
\* ---------------------------------------------------------------------------

VARIABLES source, called, tokens, lexer_error, ast, parse_error, lua, transpile_error

\* the provider adapter in use, the payloads its client has been called
\* with, what the last invoke returned or raised, and the log
VARIABLES adapter, client_calls, outcome, log

compiler_vars == <<source, called, tokens, lexer_error, ast, parse_error, lua, transpile_error>>

adapter_vars == <<adapter, client_calls, outcome, log>>

\* a parser in the middle of a token list, the answer of the last
\* lookahead made on it, the loop of the parser that made the last iteration
\* and the exception that iteration raised
VARIABLES parser, answer, iterated, raised

lookahead_vars == <<parser, answer, iterated, raised>>

vars == <<compiler_vars, adapter_vars, lookahead_vars>>

NoException == [exc |-> "None", msg |-> ""]

\* a client that returns nothing and raises nothing
NoClient == [error |-> "None", response |-> PyNone]

\* the adapter a, not yet invoked
Built(a) ==
    /\ adapter = a
    /\ client_calls = <<>>
    /\ outcome = NoOutcome
    /\ log = <<>>

\* the text src, no entry point called on it yet
Loaded(src) ==
    /\ source = src
    /\ called = {}
    /\ tokens = <<>>
    /\ lexer_error = NoError
    /\ ast = NoNode
    /\ parse_error = NoException
    /\ lua = <<>>
    /\ transpile_error = NoException

\* no lookahead made
NoAnswer == [check |-> "None", result |-> FALSE]

\* the parser p, no lookahead made on it yet
Positioned(p) ==
    /\ parser = p
    /\ answer = NoAnswer
    /\ iterated = "None"
    /\ raised = NoException

\* the state before any entry point has been called on the text src
Start(src) ==
    /\ Loaded(src)
    /\ Built(AnthropicAdapter(NoClient, "", EmptyDict, "None"))
    /\ Positioned(ParserInit(<<>>))

\* tokenize_source(source): the token list, or the LexerError raised
TokenizeSource ==
    /\ "tokenize_source" \notin called
    /\ called' = called \cup {"tokenize_source"}
    /\ \E lx \in {tokenize_source(source)} :
          /\ tokens' = IF lx.err.kind = "None" THEN lx.tokens ELSE <<>>
          /\ lexer_error' = lx.err
    /\ UNCHANGED <<source, ast, parse_error, lua, transpile_error>>
    /\ UNCHANGED adapter_vars
    /\ UNCHANGED lookahead_vars

\* parse_source(source): the Program node, or the ParseError raised
ParseSource ==
    /\ "parse_source" \notin called
    /\ called' = called \cup {"parse_source"}
    /\ \E r \in {parse_source(source)} :
          /\ ast' = r.node
          /\ parse_error' = [exc |-> r.exc, msg |-> r.msg]
    /\ UNCHANGED <<source, tokens, lexer_error, lua, transpile_error>>
    /\ UNCHANGED adapter_vars
    /\ UNCHANGED lookahead_vars

\* transpile_source(source): the Lua text, or the TranspilerError raised
TranspileSource ==
    /\ "transpile_source" \notin called
    /\ called' = called \cup {"transpile_source"}
    /\ \E r \in {transpile_source(source)} :
          /\ lua' = r.lua
          /\ transpile_error' = [exc |-> r.exc, msg |-> r.msg]
    /\ UNCHANGED <<source, tokens, lexer_error, ast, parse_error>>
    /\ UNCHANGED adapter_vars
    /\ UNCHANGED lookahead_vars

\* the entry points called are among the three
TypeOK == called \subseteq {"tokenize_source", "parse_source", "transpile_source"}

Next ==
    \/ TokenizeSource
    \/ ParseSource
    \/ TranspileSource

\* calls of invoke on one adapter, at most
MaxCalls == 2

Prompts == {"Hello", "Bye"}

\* the keyword arguments of invoke and with_default
KeywordArguments ==
    {EmptyDict, [temperature |-> "0.2"], [prompt |-> "Other"], [model |-> "claude-3-haiku"]}

\* adapter.invoke(prompt, **params)
Invoke ==
    /\ Len(client_calls) < MaxCalls
    /\ \E prompt \in Prompts, params \in KeywordArguments :
          \E r \in {invoke(adapter, prompt, params)} :
              /\ client_calls' = Append(client_calls, r.payload)
              /\ outcome' = r.outcome
              /\ log' = log \o r.logged
    /\ UNCHANGED adapter
    /\ UNCHANGED compiler_vars
    /\ UNCHANGED lookahead_vars

\* adapter = adapter.with_default(**params)
WithDefault ==
    /\ \E params \in KeywordArguments \ {EmptyDict} :
          adapter' = with_default(adapter, params)
    /\ UNCHANGED <<client_calls, outcome, log>>
    /\ UNCHANGED compiler_vars
    /\ UNCHANGED lookahead_vars

NextAdapter ==
    \/ Invoke
    \/ WithDefault

\* the parser's _is_for_of_pattern() at its cursor
IsForOfPattern ==
    /\ \E r \in {is_for_of_pattern(parser)} :
          /\ parser' = r.p
          /\ answer' = [check |-> "is_for_of_pattern", result |-> r.result]
    /\ UNCHANGED <<iterated, raised>>
    /\ UNCHANGED compiler_vars
    /\ UNCHANGED adapter_vars

\* the parser's is_mathematical_function() at its cursor
IsMathematicalFunction ==
    /\ answer' = [check |-> "is_mathematical_function",
                  result |-> is_mathematical_function(parser)]
    /\ UNCHANGED <<parser, iterated, raised>>
    /\ UNCHANGED compiler_vars
    /\ UNCHANGED adapter_vars

NextLookahead ==
    \/ IsForOfPattern
    \/ IsMathematicalFunction

\* One iteration of each loop of the parser over statements or over the
\* items of a list, entered with the loop's condition true at p.  The body
\* of a loop calls at most one parse method: the first part of the body
\* gives the call it makes, or its result where it makes none

\* the body calls the parse method named with the parser p
Call(name, p) == [call |-> name, p |-> p, r |-> Ok(NoNode, p)]

\* the body calls no parse method and comes to r
NoCall(r) == [call |-> "None", p |-> r.p, r |-> r]

\* the body of the while loops of parse_program and parse_block_statement
statement_iteration(p) ==
    IF check(p, "NEWLINE") THEN NoCall(Ok(NoNode, advance(p)))
    ELSE Call("parse_statement", p)

\* the body of the while loop of parse_class_declaration
method_iteration(p) ==
    IF check(p, "NEWLINE") THEN NoCall(Ok(NoNode, advance(p)))
    ELSE Call("parse_method_definition", p)

\* the body of the while loop of parse_parameter_list
parameter_iteration(p) ==
    IF check(p, "DOT_DOT_DOT")
    THEN NoCall(consume(advance(p), "IDENTIFIER", "Expected parameter name after '...'"))
    ELSE Only({IF c.exc # "None" THEN NoCall(c)
               ELSE Only({IF check(ty.p, "ASSIGN")
                          THEN Call("parse_assignment_expression", advance(ty.p))
                          ELSE NoCall(Ok(NoNode, ty.p))
                          : ty \in {optional_type(c.p)}})
               : c \in {consume(p, "IDENTIFIER", "Expected parameter name")}})

\* the body of the while loop of parse_argument_list
argument_iteration(p) == Call("parse_assignment_expression", match(p, "DOT_DOT_DOT"))

\* the body of the while loop of parse_array_expression
array_element_iteration(p) ==
    IF check(p, "COMMA") THEN NoCall(Ok(NoNode, advance(p)))
    ELSE Call("parse_assignment_expression", match(p, "DOT_DOT_DOT"))

\* the body of the while loop of parse_object_expression
property_iteration(p) ==
    IF check(p, "DOT_DOT_DOT") THEN Call("parse_assignment_expression", advance(p))
    ELSE Call("parse_property", p)

\* the body of the while loop of parse_array_pattern
array_pattern_iteration(p) ==
    CASE check(p, "COMMA") -> NoCall(Ok(NoNode, advance(p)))
      [] check(p, "DOT_DOT_DOT") ->
           NoCall(consume(advance(p), "IDENTIFIER", "Expected identifier after '...'"))
      [] check(p, "IDENTIFIER") -> NoCall(Ok(NoNode, advance(p)))
      [] check(p, "LEFT_BRACKET") -> Call("parse_array_pattern", p)
      [] check(p, "LEFT_BRACE") -> Call("parse_object_pattern", p)
      [] OTHER -> NoCall(Raise("ParseError",
                               "Expected identifier or pattern in array destructuring", p))

\* the body of the while loop of parse_object_pattern
object_pattern_iteration(p) ==
    IF check(p, "DOT_DOT_DOT")
    THEN NoCall(consume(advance(p), "IDENTIFIER", "Expected identifier after '...'"))
    ELSE Only({IF k.exc # "None" \/ ~check(k.p, "COLON") THEN NoCall(k)
               ELSE Only({CASE check(p1, "IDENTIFIER") -> NoCall(Ok(NoNode, advance(p1)))
                            [] check(p1, "LEFT_BRACKET") -> Call("parse_array_pattern", p1)
                            [] check(p1, "LEFT_BRACE") -> Call("parse_object_pattern", p1)
                            [] OTHER -> NoCall(Raise("ParseError",
                                                     "Expected identifier or pattern after ':'", p1))
                          : p1 \in {advance(k.p)}})
               : k \in {consume(p, "IDENTIFIER", "Expected property name")}})

\* the body of the while loop of parse_template_literal
template_part_iteration(p) ==
    IF check(p, "TEMPLATE_EXPRESSION") THEN NoCall(Ok(NoNode, advance(p)))
    ELSE NoCall(Ok(NoNode, match_any(p, {"TEMPLATE_START", "TEMPLATE_MIDDLE", "TEMPLATE_END",
                                         "TEMPLATE_STRING"})))

\* the methods whose loop goes over the items of a list and ends the
\* iteration with match(COMMA)
ListLoops ==
    {"parse_parameter_list", "parse_argument_list", "parse_array_expression",
     "parse_object_expression", "parse_array_pattern", "parse_object_pattern"}

\* the condition of the while loop of the method
loop_condition(method, p) ==
    CASE method = "parse_program" -> ~is_at_end(p)
      [] method \in {"parse_block_statement", "parse_class_declaration",
                     "parse_object_expression", "parse_object_pattern"} ->
           ~check(p, "RIGHT_BRACE") /\ ~is_at_end(p)
      [] method \in {"parse_parameter_list", "parse_argument_list"} ->
           ~check(p, "RIGHT_PAREN") /\ ~is_at_end(p)
      [] method \in {"parse_array_expression", "parse_array_pattern"} ->
           ~check(p, "RIGHT_BRACKET") /\ ~is_at_end(p)
      [] method = "parse_template_literal" ->
           check_any(p, TemplateTokenTypes) /\ ~is_at_end(p)

\* the first part of the body of the loop of the method
iteration_head(method, p) ==
    CASE method \in {"parse_program", "parse_block_statement"} -> statement_iteration(p)
      [] method = "parse_class_declaration" -> method_iteration(p)
      [] method = "parse_parameter_list" -> parameter_iteration(p)
      [] method = "parse_argument_list" -> argument_iteration(p)
      [] method = "parse_array_expression" -> array_element_iteration(p)
      [] method = "parse_object_expression" -> property_iteration(p)
      [] method = "parse_array_pattern" -> array_pattern_iteration(p)
      [] method = "parse_object_pattern" -> object_pattern_iteration(p)
      [] method = "parse_template_literal" -> template_part_iteration(p)

\* the end of the body of the loop of the method, entered at p, after its
\* first part came to r: the loop over a list goes over a comma, unless the
\* item was the rest element that ends a parameter list or a pattern
iteration_tail(method, p, r) ==
    IF r.exc # "None" \/ method \notin ListLoops THEN r
    ELSE IF check(p, "DOT_DOT_DOT")
            /\ method \in {"parse_parameter_list", "parse_array_pattern",
                           "parse_object_pattern"}
    THEN r
    ELSE Ok(NoNode, match(r.p, "COMMA"))

\* an iteration of the loop of the method at the cursor; no iteration is made
\* after an exception has been raised
Iteration(method) ==
    /\ raised.exc = "None"
    /\ loop_condition(method, parser)
    /\ iterated' = method
    /\ \E head \in {iteration_head(method, parser)} :
          \E called_result \in {IF head.call = "None" THEN head.r
                                ELSE self_call(head.call, head.p)} :
             \E r \in {iteration_tail(method, parser, called_result)} :
                /\ parser' = r.p
                /\ raised' = [exc |-> r.exc, msg |-> r.msg]
    /\ UNCHANGED answer
    /\ UNCHANGED compiler_vars
    /\ UNCHANGED adapter_vars

\* parse_program's loop that keeps the cursor on a NEWLINE token
ParseProgramIteration_keeping_newline ==
    /\ raised.exc = "None"
    /\ ~is_at_end(parser)
    /\ iterated' = "parse_program"
    /\ \E r \in {IF check(parser, "NEWLINE") THEN Ok(NoNode, parser)
                 ELSE self_call("parse_statement", parser)} :
          /\ parser' = r.p
          /\ raised' = [exc |-> r.exc, msg |-> r.msg]
    /\ UNCHANGED answer
    /\ UNCHANGED compiler_vars
    /\ UNCHANGED adapter_vars

ParseProgramIteration == Iteration("parse_program")

ParseBlockIteration == Iteration("parse_block_statement")

ParseClassBodyIteration == Iteration("parse_class_declaration")

ParseParameterIteration == Iteration("parse_parameter_list")

ParseArgumentIteration == Iteration("parse_argument_list")

ParseArrayElementIteration == Iteration("parse_array_expression")

ParsePropertyIteration == Iteration("parse_object_expression")

ParseArrayPatternIteration == Iteration("parse_array_pattern")

ParseObjectPatternIteration == Iteration("parse_object_pattern")

ParseTemplatePartIteration == Iteration("parse_template_literal")

NextLoops ==
    \/ ParseProgramIteration
    \/ ParseBlockIteration
    \/ ParseClassBodyIteration
    \/ ParseParameterIteration
    \/ ParseArgumentIteration
    \/ ParseArrayElementIteration
    \/ ParsePropertyIteration
    \/ ParseArrayPatternIteration
    \/ ParseObjectPatternIteration
    \/ ParseTemplatePartIteration

\* ---------------------------------------------------------------------------
\* Programs the entry points are applied to.  A family of programs is a set
\* of descriptions and the text each description is written as.
\* ---------------------------------------------------------------------------

\* all sequences over S of length at most n
SeqsUpTo(S, n) == UNION {[1..k -> S] : k \in 0..n}

\* statements around the statement under test, at most this deep
MaxNest == 1

\* the statement inner inside the body of the construct w
Enclose(w, inner) ==
    CASE w = "if" -> Str("if (a) { ") \o inner \o Str(" }")
      [] w = "if_plain" -> Str("if (a) ") \o inner
      [] w = "else" -> Str("if (a) { b; } else { ") \o inner \o Str(" }")
      [] w = "block" -> Str("{ ") \o inner \o Str(" }")
      [] w = "try" -> Str("try { ") \o inner \o Str(" } catch (e) { b; }")
      [] w = "function" -> Str("function g() { ") \o inner \o Str(" }")
      [] w = "method" -> Str("class D { m() { ") \o inner \o Str(" } }")
      [] w = "while" -> Str("while (a) { ") \o inner \o Str(" }")
      [] w = "for_of" -> Str("for (let x of xs) { ") \o inner \o Str(" }")
      [] w = "for" -> Str("for (let i = 0; i < n; i++) { ") \o inner \o Str(" }")

RECURSIVE EncloseAll(_, _)
\* inner inside the constructs ws, ws[1] outermost
EncloseAll(ws, inner) ==
    IF ws = <<>> THEN inner ELSE Enclose(Head(ws), EncloseAll(Tail(ws), inner))

LoopConstructs == {"while", "for_of", "for"}
FunctionConstructs == {"function", "method"}
PlainConstructs == {"if", "if_plain", "else", "block", "try"}

\* a statement that has been closed before the statement under test
ClosedBefore(c) ==
    CASE c = "nothing" -> <<>>
      [] c = "while" -> Str("while (a) { b; } ")
      [] c = "for_of" -> Str("for (x of xs) { b; } ")
      [] c = "function" -> Str("function f() { return 1; } ")
      [] c = "method" -> Str("class C { m() { return 1; } } ")

JumpText(j) ==
    CASE j = "break" -> Str("break;")
      [] j = "continue" -> Str("continue;")
      [] j = "return" -> Str("return 1;")

\* break and continue with no loop around them, return with no function or
\* method around it, each after a statement that has been closed
StrayJumps ==
    [jump : {"break", "continue"},
     before : {"nothing", "while", "for_of", "function", "method"},
     around : SeqsUpTo(PlainConstructs \cup FunctionConstructs, MaxNest)]
    \cup
    [jump : {"return"},
     before : {"nothing", "while", "for_of", "function", "method"},
     around : SeqsUpTo(PlainConstructs \cup LoopConstructs, MaxNest)]

StrayJumpSource(i) == ClosedBefore(i.before) \o EncloseAll(i.around, JumpText(i.jump))

\* the texts of the programs of the family with the jump statement j
StrayJumpSources(j) == {StrayJumpSource(i) : i \in {k \in StrayJumps : k.jump = j}}

StrayBreakSources == StrayJumpSources("break")
StrayContinueSources == StrayJumpSources("continue")
StrayReturnSources == StrayJumpSources("return")

InitStrayJumps ==
    \E src \in StrayBreakSources \cup StrayContinueSources \cup StrayReturnSources :
        Start(src)

SpecStrayJumps == InitStrayJumps /\ [][Next]_vars

\* C1: parse_source raises ParseError for a break or continue that no loop
\* body encloses and for a return that no function or method body encloses,
\* also after an earlier loop or function has been closed; the message for
\* return mentions "return" and "function", the one for break "break" and
\* "loop"
C1_StrayJumpRejected ==
    "parse_source" \in called =>
        /\ source \in StrayBreakSources \cup StrayContinueSources \cup StrayReturnSources =>
               /\ parse_error.exc = "ParseError"
               /\ ast = NoNode
        /\ source \in StrayReturnSources =>
               /\ StrContains(parse_error.msg, "return")
               /\ StrContains(parse_error.msg, "function")
        /\ source \in StrayBreakSources =>
               /\ StrContains(parse_error.msg, "break")
               /\ StrContains(parse_error.msg, "loop")

\* a break after a closed while loop has been rejected
C1_Witness ==
    /\ source = Str("while (a) { b; } break;")
    /\ "parse_source" \in called
    /\ parse_error.exc = "ParseError"
    /\ StrContains(parse_error.msg, "break statement outside loop")

\* ---------------------------------------------------------------------------
\* Programs of a few statements, some of which use the runtime library
\* ---------------------------------------------------------------------------

\* statements in a program, at most
MaxStatements == 2

\* statements whose Lua code calls a helper of the runtime table _LS
RuntimeStatements == {Str("xs.map(f);"), Str("[1, 2];"), Str("let a = [];")}

\* statements whose Lua code does not mention _LS
PlainStatements ==
    {Str("x;"), Str("let n = 1;"), Str("f(x);"), Str("if (a) { b; }"),
     Str("function f() { return 1; }")}

\* statements the lexer or the parser rejects
RejectedStatements == {Str("break;"), Str("#")}

ProgramOf(stmts) == Join(stmts, Str(" "))

HeaderPrograms ==
    {ProgramOf(stmts) :
        stmts \in SeqsUpTo(RuntimeStatements \cup PlainStatements \cup RejectedStatements,
                           MaxStatements)}

\* the programs of HeaderPrograms with a statement that uses the runtime library
RuntimePrograms ==
    {ProgramOf(stmts) :
        stmts \in {q \in SeqsUpTo(RuntimeStatements \cup PlainStatements, MaxStatements) :
                      \E i \in 1..Len(q) : q[i] \in RuntimeStatements}}

InitHeader == \E src \in HeaderPrograms : Start(src)

SpecHeader == InitHeader /\ [][Next]_vars

\* the number of places where the text t occurs in s
Occurrences(s, t) == Cardinality({i \in 0..(Len(s) - Len(t)) : Slice(s, i, i + Len(t)) = t})

\* the first lines of every generated text
ExpectedHeader ==
    Str("local _LS = require(\"runtime/core/enhanced_runtime\")") \o <<"\n">>
    \o <<"\n">>
    \o Str("-- Generated by LUASCRIPT Enhanced Transpiler") \o <<"\n">>
    \o Str("-- Mathematical programming with Unicode operator support") \o <<"\n">>

\* C11: the text every successful transpile_source call returns begins with
\* the line local _LS = require("runtime/core/enhanced_runtime"), a blank
\* line and the two comment lines of the banner, with the body after them;
\* the import occurs exactly once, in programs that use a helper of _LS and
\* in programs that use none
C11_ImportOnceThenBanner ==
    ("transpile_source" \in called /\ transpile_error.exc = "None") =>
        /\ Len(lua) >= Len(ExpectedHeader)
        /\ SubSeq(lua, 1, Len(ExpectedHeader)) = ExpectedHeader
        /\ Occurrences(lua, Str("local _LS")) = 1
        /\ Occurrences(lua, Str("require(")) = 1
        /\ source \in RuntimePrograms => Occurrences(lua, Str("_LS.")) >= 1

\* a program of a plain statement and a call of map has been transpiled, the
\* helper called once
C11_Witness ==
    /\ source = Str("x; xs.map(f);")
    /\ "transpile_source" \in called
    /\ transpile_error.exc = "None"
    /\ Occurrences(lua, Str("_LS.map(")) = 1

\* ---------------------------------------------------------------------------
\* Every text over a few characters, as the source of the lexer
\* ---------------------------------------------------------------------------

\* characters in a source text, at most
MaxSourceLen == 3

\* the quote, the backslash, the backtick, the interpolation opener, a digit,
\* the exponent letter, the comment characters and a character no token
\* starts with
LexerChars == {"\"", "\\", BACKTICK, "$", "{", "1", "e", "/", "*", "#"}

LexerSources == SeqsUpTo(LexerChars, MaxSourceLen)

InitLexer == \E src \in LexerSources : Start(src)

SpecLexer == InitLexer /\ [][Next]_vars

\* C12: tokenize_source either returns a token list with exactly one EOF
\* token, the last element of the list, or raises LexerError; no other
\* exception is raised and no list without the final EOF is returned
C12_EofLastOrLexerError ==
    "tokenize_source" \in called =>
        \/ /\ lexer_error.kind = "LexerError"
           /\ tokens = <<>>
        \/ /\ lexer_error.kind = "None"
           /\ Len(tokens) >= 1
           /\ tokens[Len(tokens)].type = "EOF"
           /\ \A i \in 1..(Len(tokens) - 1) : tokens[i].type # "EOF"

\* a template string has been tokenized: its token and the EOF token
C12_Witness ==
    /\ source = <<BACKTICK, "1", BACKTICK>>
    /\ "tokenize_source" \in called
    /\ lexer_error.kind = "None"
    /\ Len(tokens) = 2
    /\ tokens[1].type = "TEMPLATE_STRING"
    /\ tokens[2].type = "EOF"

\* an exponent with no digits has been rejected by the lexer
C12_RejectedWitness ==
    /\ source = Str("1e")
    /\ "tokenize_source" \in called
    /\ lexer_error.kind = "LexerError"

\* ---------------------------------------------------------------------------
\* Texts put together from lexemes, some of them of more than one line
\* ---------------------------------------------------------------------------

\* lexemes in a source text, at most
MaxPieces == 2

\* an identifier, a number, an operator, a blank, a line break, a string with
\* escapes, a string and two templates with a line break inside, and two
\* block comments
PositionPieces ==
    {Str("x"), Str("12"), Str("+="), Str(" "), <<"\n">>,
     <<"\"", "a", "\\", "\"", "\\", "n", "\"">>,
     <<"\"", "a", "b", "\n", "c", "\"">>,
     <<BACKTICK, "a", "\n", "b", BACKTICK>>,
     <<BACKTICK, "a", "\n", "$", "{", "x", "}", "b", BACKTICK>>,
     <<"/", "*", " ", "a", "\n", "b", " ", "*", "/">>,
     Str("/* a */")}

RECURSIVE Concat(_)
\* the texts of a sequence one after the other
Concat(parts) == IF parts = <<>> THEN <<>> ELSE Head(parts) \o Concat(Tail(parts))

PositionSources == {Concat(parts) : parts \in SeqsUpTo(PositionPieces, MaxPieces)}

InitPositions == \E src \in PositionSources : Start(src)

SpecPositions == InitPositions /\ [][Next]_vars

\* (line, column) of the token t is not after that of u
PositionLeq(t, u) == t.line < u.line \/ (t.line = u.line /\ t.column <= u.column)

\* C13: in the list tokenize_source returns, the positions (line, column) of
\* consecutive tokens never decrease, also after strings with escapes,
\* strings and templates of more than one line, and block comments
C13_PositionsNeverDecrease ==
    ("tokenize_source" \in called /\ lexer_error.kind = "None") =>
        \A i \in 1..(Len(tokens) - 1) : PositionLeq(tokens[i], tokens[i + 1])

\* an identifier and a string of two lines have been tokenized; the string
\* is on line 2 at a column before that of the identifier
C13_Witness ==
    /\ source = <<"x", "\"", "a", "b", "\n", "c", "\"">>
    /\ "tokenize_source" \in called
    /\ Len(tokens) = 3
    /\ tokens[1].line = 1
    /\ tokens[2].type = "STRING"
    /\ tokens[2].line = 2
    /\ tokens[2].column < tokens[1].column

\* ---------------------------------------------------------------------------
\* Programs with one error, lexical or syntactic, after statements without
\* ---------------------------------------------------------------------------

\* statements before the statement with the error, at most
MaxBefore == 1

\* texts the lexer rejects: a string and a template that are not closed, an
\* exponent with no digits, a character no token starts with
LexicalErrors ==
    {Str("let s = \"abc;"), <<BACKTICK, "a", "b", "c">>, Str("let n = 1e;"), Str("a # b;")}

\* texts of tokens the parser rejects
SyntaxErrors ==
    {Str("let = 1;"), Str("if (a { b; }"), Str("const c;"), Str("f(;"), Str("break;")}

ErrorPrograms(errors) ==
    {ProgramOf(before \o <<e>>) :
        before \in SeqsUpTo(PlainStatements, MaxBefore), e \in errors}

LexicalErrorPrograms == ErrorPrograms(LexicalErrors)
SyntaxErrorPrograms == ErrorPrograms(SyntaxErrors)

InitErrors == \E src \in LexicalErrorPrograms \cup SyntaxErrorPrograms : Start(src)

SpecErrors == InitErrors /\ [][Next]_vars

\* C14: the first error reaches the caller of transpile_source with its kind
\* unchanged: a lexical error in the source is raised as a lexer error, a
\* syntax error as a parse error, and in both cases no Lua text is returned
C14_ErrorKindUnchanged ==
    "transpile_source" \in called =>
        /\ source \in LexicalErrorPrograms =>
               /\ transpile_error.exc = "LexerError"
               /\ lua = <<>>
        /\ source \in SyntaxErrorPrograms =>
               /\ transpile_error.exc = "ParseError"
               /\ lua = <<>>

\* what transpile_source does with the errors of C14: each is raised again as
\* a TranspilerError whose message holds the text of the first error, with
\* its line and column when it came from the lexer; no Lua text is returned
C14_ErrorRaisedAsTranspilerError ==
    ("transpile_source" \in called
        /\ source \in LexicalErrorPrograms \cup SyntaxErrorPrograms) =>
        /\ transpile_error.exc = "TranspilerError"
        /\ lua = <<>>
        /\ StrContains(transpile_error.msg, "Transpilation failed: ")
        /\ source \in LexicalErrorPrograms =>
               StrContains(transpile_error.msg, "Lexer Error at line 1, column ")

\* the string that is not closed has been rejected by transpile_source
C14_Witness ==
    /\ source = Str("let s = \"abc;")
    /\ "transpile_source" \in called
    /\ transpile_error.exc = "TranspilerError"
    /\ transpile_error.msg =
           "Transpilation failed: Lexer Error at line 1, column 14: Unterminated string literal"

\* ---------------------------------------------------------------------------
\* Programs of one expression statement: an identifier or a literal
\* ---------------------------------------------------------------------------

IdentifierLexemes == {Str("x"), Str("total"), Str("_a1"), Str("$el")}

\* number lexemes Python prints back as they are written
CanonicalNumberLexemes == {Str("0"), Str("42"), Str("1.5"), Str("0.25")}

\* number lexemes with an exponent, a trailing zero or a leading zero
OtherNumberLexemes == {Str("1e3"), Str("1.50"), Str("2E2"), Str("007")}

\* string lexemes with no quote, backslash or line break inside
PlainStringLexemes == {Str("\"abc\""), Str("\"a b\""), Str("\"\"")}

\* string lexemes with an escaped double quote, an escaped backslash and an
\* escaped line break
EscapedStringLexemes ==
    {<<"\"", "a", "\\", "\"", "b", "\"">>,
     <<"\"", "a", "\\", "\\", "b", "\"">>,
     <<"\"", "a", "\\", "n", "b", "\"">>}

SingleLexemes ==
    IdentifierLexemes \cup CanonicalNumberLexemes \cup OtherNumberLexemes
    \cup PlainStringLexemes \cup EscapedStringLexemes

\* the expression statement of the lexeme, with or without the semicolon
SingleLexemeProgram(lexeme, semicolon) == IF semicolon THEN lexeme \o Str(";") ELSE lexeme

\* the lexeme of a program of SingleLexemeSources
LexemeOf(src) == IF src[Len(src)] = ";" THEN SubSeq(src, 1, Len(src) - 1) ELSE src

SingleLexemeSources ==
    {SingleLexemeProgram(l, semi) : l \in SingleLexemes, semi \in BOOLEAN}

InitSingleLexeme == \E src \in SingleLexemeSources : Start(src)

SpecSingleLexeme == InitSingleLexeme /\ [][Next]_vars

\* the text after the import line and the banner
LuaBody(text) == SubSeq(text, Len(ExpectedHeader) + 2, Len(text))

\* C15: for a program that is one expression statement made of an
\* identifier, a number literal or a string literal, the Lua text is that
\* lexeme verbatim: the identifier unchanged, the number as it is written
\* (1e3, 1.50), the string in double quotes with the double quotes,
\* backslashes and line breaks inside it escaped
C15_LexemeVerbatim ==
    ("transpile_source" \in called /\ source \in SingleLexemeSources) =>
        /\ transpile_error.exc = "None"
        /\ LuaBody(lua) = LexemeOf(source)

\* the part of C15 the generator keeps: identifiers, numbers in the form
\* Python prints them and strings with nothing to escape are emitted as
\* they are written
C15_PlainLexemeVerbatim ==
    ("transpile_source" \in called
        /\ LexemeOf(source) \in IdentifierLexemes \cup CanonicalNumberLexemes
                                \cup PlainStringLexemes) =>
        /\ transpile_error.exc = "None"
        /\ LuaBody(lua) = LexemeOf(source)

\* the string a"b, written with the quote escaped, has been emitted with the
\* quote bare
C15_Witness ==
    /\ source = <<"\"", "a", "\\", "\"", "b", "\"", ";">>
    /\ "transpile_source" \in called
    /\ transpile_error.exc = "None"
    /\ LuaBody(lua) = <<"\"", "a", "\"", "b", "\"">>

\* the number 1.50 has been emitted as 1.5 and so not as it is written
C15_NumberWitness ==
    /\ source = Str("1.50;")
    /\ "transpile_source" \in called
    /\ LuaBody(lua) = Str("1.5")

\* ---------------------------------------------------------------------------
\* Programs of one identifier with a subscript digit
\* ---------------------------------------------------------------------------

SubscriptedNames == {Str("x"), Str("y"), Str("pos")}

\* the ASCII digit of a subscript digit
AsciiOfSubscript(c) == CASE c = "<sub1>" -> "1" [] c = "<sub2>" -> "2"

\* name, subscript digit, whether a blank stands between them, and whether a
\* semicolon ends the statement
SubscriptedIdentifiers ==
    [name : SubscriptedNames, digit : {"<sub1>", "<sub2>"}, blank : BOOLEAN,
     semicolon : BOOLEAN]

SubscriptSource(i) ==
    i.name \o (IF i.blank THEN Str(" ") ELSE <<>>) \o <<i.digit>>
    \o (IF i.semicolon THEN Str(";") ELSE <<>>)

\* the identifiers followed directly by their subscript
DirectSubscripts == {i \in SubscriptedIdentifiers : ~i.blank}

InitSubscripts == \E i \in SubscriptedIdentifiers : Start(SubscriptSource(i))

SpecSubscripts == InitSubscripts /\ [][Next]_vars

\* the program of the one expression statement expr
OneExpressionProgram(expr) ==
    [type |-> "Program",
     statements |-> <<[type |-> "ExpressionStatement", expression |-> expr]>>]

\* C16: an identifier followed directly by a subscript digit is parsed as an
\* Identifier that stores the subscript next to the name and is emitted as
\* the Lua identifier <name>_<digit>, so that x1 and x2 written with
\* subscripts compile to two different Lua names
C16_SubscriptStoredAndEmitted ==
    \A i \in DirectSubscripts :
        source = SubscriptSource(i) =>
            /\ "parse_source" \in called =>
                   /\ parse_error.exc = "None"
                   /\ ast = OneExpressionProgram(
                                Identifier(i.name, <<AsciiOfSubscript(i.digit)>>))
            /\ "transpile_source" \in called =>
                   /\ transpile_error.exc = "None"
                   /\ LuaBody(lua) = i.name \o <<"_", AsciiOfSubscript(i.digit)>>

\* what the code does with the identifiers of C16: the lexer takes the
\* subscript digit into the name, the Identifier stores no subscript, and
\* the name is emitted with the subscript digit in it
C16_SubscriptKeptInName ==
    \A i \in DirectSubscripts :
        source = SubscriptSource(i) =>
            /\ "parse_source" \in called =>
                   /\ parse_error.exc = "None"
                   /\ ast = OneExpressionProgram(Identifier(i.name \o <<i.digit>>, None))
            /\ "transpile_source" \in called =>
                   /\ transpile_error.exc = "None"
                   /\ LuaBody(lua) = i.name \o <<i.digit>>

\* x with the subscript 2 has been parsed and transpiled: one Identifier
\* named with the subscript digit, emitted as it is written
C16_Witness ==
    /\ source = <<"x", "<sub2>", ";">>
    /\ {"parse_source", "transpile_source"} \subseteq called
    /\ ast = OneExpressionProgram(Identifier(<<"x", "<sub2>">>, None))
    /\ LuaBody(lua) = <<"x", "<sub2>">>

\* after a blank the subscript is a token of its own: the Identifier stores
\* it and the generator leaves it out
C16_BlankWitness ==
    /\ source = <<"x", " ", "<sub2>", ";">>
    /\ {"parse_source", "transpile_source"} \subseteq called
    /\ ast = OneExpressionProgram(Identifier(Str("x"), Str("2")))
    /\ LuaBody(lua) = Str("x")

\* ---------------------------------------------------------------------------
\* Adapters whose client raises an exception or returns a response
\* ---------------------------------------------------------------------------

\* the classes derived from Exception a client raises
StandardErrors == {"Exception", "RuntimeError", "ValueError", "TimeoutError",
                   "ProviderRequestError"}

\* the classes derived from BaseException and not from Exception
InterpreterErrors == {"KeyboardInterrupt", "SystemExit", "GeneratorExit"}

Responses == {PyDict([completion |-> "done"]), PyDict([text |-> "done"]), PyStr("done")}

Clients ==
    {[error |-> e, response |-> PyNone] : e \in StandardErrors \cup InterpreterErrors}
    \cup {[error |-> "None", response |-> r] : r \in Responses}

InitAdapter ==
    /\ Loaded(<<>>)
    /\ Positioned(ParserInit(<<>>))
    /\ \E client \in Clients, given_parser \in {"None", "raw"} :
          Built(AnthropicAdapter(client, "claude-3-sonnet", EmptyDict, given_parser))

SpecAdapter == InitAdapter /\ [][NextAdapter]_vars

\* C17: invoke raises ProviderRequestError with the message "Anthropic
\* request failed" for every exception of the client that derives from
\* Exception, and lets an exception that derives only from BaseException,
\* such as KeyboardInterrupt, through unchanged; in neither case does it
\* return a response
C17_ExceptionWrappedBaseExceptionPropagates ==
    Len(client_calls) > 0 =>
        /\ adapter.client.error \in StandardErrors =>
               /\ outcome.kind = "raised"
               /\ outcome.exc = "ProviderRequestError"
               /\ outcome.msg = "Anthropic request failed"
               /\ outcome.value = PyNone
        /\ adapter.client.error \in InterpreterErrors =>
               /\ outcome.kind = "raised"
               /\ outcome.exc = adapter.client.error
               /\ outcome.cause = "None"
               /\ outcome.value = PyNone

\* a client has raised KeyboardInterrupt and invoke has let it through
C17_Witness ==
    /\ adapter.client.error = "KeyboardInterrupt"
    /\ Len(client_calls) = 1
    /\ outcome.kind = "raised"
    /\ outcome.exc = "KeyboardInterrupt"

\* a client has raised RuntimeError and invoke has raised ProviderRequestError
C17_WrappedWitness ==
    /\ adapter.client.error = "RuntimeError"
    /\ Len(client_calls) = 1
    /\ outcome.exc = "ProviderRequestError"
    /\ outcome.cause = "RuntimeError"

\* ---------------------------------------------------------------------------
\* Programs of one statement whose expression begins with a parenthesis
\* ---------------------------------------------------------------------------

\* parenthesised expressions with no => after them, each with the class of
\* the node it is to be parsed as; the first token after the parenthesis is
\* an identifier
GroupedFromIdentifier ==
    {[text |-> Str("(a + b)"), class |-> "BinaryExpression"],
     [text |-> Str("(a)"), class |-> "Identifier"],
     [text |-> Str("(a) + 1"), class |-> "BinaryExpression"],
     [text |-> Str("(a.b)"), class |-> "MemberExpression"],
     [text |-> Str("(f(x))"), class |-> "CallExpression"]}

\* the same, the first token after the parenthesis being no identifier
GroupedFromOther ==
    {[text |-> Str("(1 + 2) * 3"), class |-> "BinaryExpression"],
     [text |-> Str("(-a)"), class |-> "UnaryExpression"],
     [text |-> Str("(\"s\")"), class |-> "Literal"],
     [text |-> Str("(1)"), class |-> "Literal"],
     [text |-> Str("(!a)"), class |-> "UnaryExpression"]}

\* parameter lists in parentheses with => after them
ArrowFunctions ==
    {[text |-> Str("(a) => a"), class |-> "ArrowFunctionExpression"],
     [text |-> Str("(a, b) => a"), class |-> "ArrowFunctionExpression"],
     [text |-> Str("() => 1"), class |-> "ArrowFunctionExpression"],
     [text |-> Str("(a) => (a)"), class |-> "ArrowFunctionExpression"]}

\* the expression alone or as the right side of an assignment, with or
\* without the semicolon
ParenthesisedPrograms ==
    [expr : GroupedFromIdentifier \cup GroupedFromOther \cup ArrowFunctions,
     assigned : BOOLEAN, semicolon : BOOLEAN]

ParenthesisedSource(i) ==
    (IF i.assigned THEN Str("x = ") ELSE <<>>) \o i.expr.text
    \o (IF i.semicolon THEN Str(";") ELSE <<>>)

InitParenthesised == \E i \in ParenthesisedPrograms : Start(ParenthesisedSource(i))

SpecParenthesised == InitParenthesised /\ [][Next]_vars

\* the node of the parenthesised expression in the program parsed for i
ParenthesisedNode(program, i) ==
    IF i.assigned THEN program.statements[1].expression.right
    ELSE program.statements[1].expression

\* has the program i been parsed into one statement whose parenthesised
\* expression is a node of the class named for it
ParsedAsNamed(i) ==
    /\ parse_error.exc = "None"
    /\ ast.type = "Program"
    /\ Len(ast.statements) = 1
    /\ ast.statements[1].type = "ExpressionStatement"
    /\ i.assigned => ast.statements[1].expression.type = "AssignmentExpression"
    /\ ParenthesisedNode(ast, i).type = i.expr.class

\* C18: every parenthesised expression with no => after it is parsed as a
\* grouped expression whatever its first token is, as in (1 + 2) * 3, (-a),
\* ("s"), (a + b) and (a), and only ( params ) => is parsed as an arrow
\* function; the arrow attempt that fails goes back to the parenthesis and
\* raises no error
C18_GroupedUnlessArrow ==
    \A i \in ParenthesisedPrograms :
        ("parse_source" \in called /\ source = ParenthesisedSource(i)) => ParsedAsNamed(i)

\* what the parser does with the programs of C18: a group that begins with
\* an identifier is parsed as a grouped expression and a parameter list with
\* => as an arrow function; a group that begins with another token is
\* rejected, the arrow attempt having asked for a parameter name
C18_GroupedWhenIdentifierFirst ==
    \A i \in ParenthesisedPrograms :
        ("parse_source" \in called /\ source = ParenthesisedSource(i)) =>
            IF i.expr \in GroupedFromOther
            THEN /\ parse_error.exc = "ParseError"
                 /\ StrContains(parse_error.msg, "Expected parameter name")
                 /\ ast = NoNode
            ELSE ParsedAsNamed(i)

\* (1 + 2) * 3 has been rejected by parse_source
C18_Witness ==
    /\ source = Str("(1 + 2) * 3;")
    /\ "parse_source" \in called
    /\ parse_error.exc = "ParseError"
    /\ StrContains(parse_error.msg, "Expected parameter name. Got NUMBER: '1'")

\* (a + b) has been parsed as the grouped expression after the arrow attempt
C18_RewindWitness ==
    /\ source = Str("(a + b);")
    /\ "parse_source" \in called
    /\ parse_error.exc = "None"
    /\ ast.statements[1].expression.type = "BinaryExpression"

\* ---------------------------------------------------------------------------
\* Parsers at every position of every short token list
\* ---------------------------------------------------------------------------

\* tokens before the EOF token, at most
MaxTokens == 4

\* the token types the two lookaheads tell apart, and a type neither names
LookaheadTypes == {"LET", "IDENTIFIER", "OF", "LEFT_PAREN", "RIGHT_PAREN", "ASSIGN"}

\* the token list of the types, with the EOF token after them
TokensOf(types) ==
    [i \in 1..(Len(types) + 1) |->
        IF i <= Len(types) THEN Token(types[i], <<>>, 1, i, None)
        ELSE Token("EOF", <<>>, 1, i, None)]

LookaheadTokenLists == {TokensOf(types) : types \in SeqsUpTo(LookaheadTypes, MaxTokens)}

InitLookahead ==
    /\ Loaded(<<>>)
    /\ Built(AnthropicAdapter(NoClient, "", EmptyDict, "None"))
    /\ \E toks \in LookaheadTokenLists, cursor \in 0..MaxTokens + 1 :
          /\ cursor <= Len(toks)
          /\ Positioned([ParserInit(toks) EXCEPT !.current = cursor])

SpecLookahead == InitLookahead /\ [][NextLookahead]_vars

\* C19: _is_for_of_pattern and is_mathematical_function are pure: for every
\* token list and every cursor position the parser after the check is the
\* parser before it, cursor and all other fields, whether the check answers
\* true, answers false or comes to the end of the token list
C19_LookaheadPure == [][parser' = parser]_vars

\* _is_for_of_pattern has answered true at the cursor after a parenthesis,
\* two tokens before the token of
C19_Witness ==
    /\ parser.current = 1
    /\ Len(parser.tokens) = 5
    /\ parser.tokens[2].type = "LET"
    /\ parser.tokens[3].type = "IDENTIFIER"
    /\ parser.tokens[4].type = "OF"
    /\ answer = [check |-> "is_for_of_pattern", result |-> TRUE]

\* is_mathematical_function has answered true for f ( ) = with the cursor at f
C19_MathematicalWitness ==
    /\ parser.current = 0
    /\ Len(parser.tokens) = 5
    /\ parser.tokens[1].type = "IDENTIFIER"
    /\ parser.tokens[2].type = "LEFT_PAREN"
    /\ parser.tokens[3].type = "RIGHT_PAREN"
    /\ parser.tokens[4].type = "ASSIGN"
    /\ answer = [check |-> "is_mathematical_function", result |-> TRUE]

\* ---------------------------------------------------------------------------
\* Programs of one statement: a power of two or three operands
\* ---------------------------------------------------------------------------

ExponentOperators == {Str("**"), Str("^")}

\* left op right, or left op right op third when third is not empty, with or
\* without the semicolon
ExponentPrograms ==
    [left : {Str("a"), Str("2")}, op : ExponentOperators, right : {Str("b"), Str("3")},
     third : {<<>>, Str("c")}, semicolon : BOOLEAN]

ExponentSource(i) ==
    i.left \o Str(" ") \o i.op \o Str(" ") \o i.right
    \o (IF i.third = <<>> THEN <<>> ELSE Str(" ") \o i.op \o Str(" ") \o i.third)
    \o (IF i.semicolon THEN Str(";") ELSE <<>>)

\* the Lua text of the power, grouped from the right
ExponentLua(i) ==
    IF i.third = <<>> THEN Str("(") \o i.left \o Str(" ^ ") \o i.right \o Str(")")
    ELSE Str("(") \o i.left \o Str(" ^ (") \o i.right \o Str(" ^ ") \o i.third \o Str("))")

InitExponent == \E i \in ExponentPrograms : Start(ExponentSource(i))

SpecExponent == InitExponent /\ [][Next]_vars

\* C20: ** and ^ are both accepted as binary exponent operators between two
\* operands, both are emitted as the Lua operator ^, and both group from the
\* right: a ** b ** c and a ^ b ^ c compile to (a ^ (b ^ c))
C20_ExponentRightAssociative ==
    \A i \in ExponentPrograms :
        ("transpile_source" \in called /\ source = ExponentSource(i)) =>
            /\ transpile_error.exc = "None"
            /\ LuaBody(lua) = ExponentLua(i)

\* what the code does with the programs of C20: the lexer makes the POWER
\* token of ** and of ^, no level of the expression parser takes it as an
\* operator, and the program is rejected at that token
C20_ExponentOperatorRejected ==
    \A i \in ExponentPrograms :
        source = ExponentSource(i) =>
            /\ "tokenize_source" \in called =>
                   /\ lexer_error.kind = "None"
                   /\ tokens[2].type = "POWER"
                   /\ tokens[2].value = i.op
            /\ "parse_source" \in called =>
                   /\ parse_error.exc = "ParseError"
                   /\ StrContains(parse_error.msg, "Unexpected token: " \o Flat(i.op))
            /\ "transpile_source" \in called =>
                   /\ transpile_error.exc = "TranspilerError"
                   /\ StrContains(transpile_error.msg, "Unexpected token: " \o Flat(i.op))
                   /\ lua = <<>>

\* a ** b ** c has been rejected by transpile_source at the first **
C20_Witness ==
    /\ source = Str("a ** b ** c;")
    /\ "transpile_source" \in called
    /\ transpile_error.exc = "TranspilerError"
    /\ transpile_error.msg = "Transpilation failed: Parse Error: Unexpected token: **"
    /\ lua = <<>>

\* ---------------------------------------------------------------------------
\* Programs of one statement with a superscript digit after an operand
\* ---------------------------------------------------------------------------

\* operands ending in a letter, with the Lua text of each
LetterOperands ==
    {[text |-> Str("r"), lua |-> Str("r")],
     [text |-> Str("p.x"), lua |-> Str("p.x")],
     [text |-> Str("this.x"), lua |-> Str("self.x")]}

\* operands ending in a digit
DigitOperands == {[text |-> Str("2"), lua |-> Str("2")]}

\* operands ending in a closing parenthesis
ClosedOperands ==
    {[text |-> Str("(a + b)"), lua |-> Str("(a + b)")],
     [text |-> Str("f(x)"), lua |-> Str("f(x)")]}

\* the ASCII digit of a superscript digit
AsciiOfSuperscript(c) == CASE c = "<sup2>" -> "2" [] c = "<sup3>" -> "3"

\* the operand with the superscript digit directly after it, alone or as the
\* value of a declaration, with or without the semicolon
SuperscriptPrograms ==
    [operand : LetterOperands \cup DigitOperands \cup ClosedOperands,
     digit : {"<sup2>", "<sup3>"}, declared : BOOLEAN, semicolon : BOOLEAN]

SuperscriptSource(i) ==
    (IF i.declared THEN Str("let y = ") ELSE <<>>) \o i.operand.text \o <<i.digit>>
    \o (IF i.semicolon THEN Str(";") ELSE <<>>)

\* the Lua text of the statement around the Lua text of its expression
SuperscriptStatementLua(i, expr) == (IF i.declared THEN Str("local y = ") ELSE <<>>) \o expr

InitSuperscript == \E i \in SuperscriptPrograms : Start(SuperscriptSource(i))

SpecSuperscript == InitSuperscript /\ [][Next]_vars

\* the superscript digit is a token of its own with the digit as its value,
\* and the Lua text is the power of the operand
SuperscriptIsPower(i) ==
    /\ "tokenize_source" \in called =>
           /\ lexer_error.kind = "None"
           /\ \E k \in 1..Len(tokens) :
                 /\ tokens[k].type = "SUPERSCRIPT_NUMBER"
                 /\ tokens[k].value = <<AsciiOfSuperscript(i.digit)>>
    /\ "transpile_source" \in called =>
           /\ transpile_error.exc = "None"
           /\ LuaBody(lua) =
                  SuperscriptStatementLua(i,
                      Str("(") \o i.operand.lua \o Str(" ^ ")
                      \o <<AsciiOfSuperscript(i.digit)>> \o Str(")"))

\* C2: a superscript digit directly after an operand, be it an identifier
\* (r), a member access (this.x), a number (2) or a closing parenthesis
\* ((a + b)), is compiled as the power of that operand: the lexer returns
\* the superscript as a token of its own with the digit as value, the parser
\* builds operand ^ digit, and the Lua text is (<operand> ^ <digit>)
C2_SuperscriptIsPower ==
    \A i \in SuperscriptPrograms : source = SuperscriptSource(i) => SuperscriptIsPower(i)

\* what the code does with the programs of C2: after a closing parenthesis
\* the superscript is compiled as the power; after a letter the lexer takes
\* it into the identifier, which is emitted with it; after a digit the lexer
\* takes it into the number, which the parser cannot convert
C2_SuperscriptAfterParenthesisOnly ==
    \A i \in SuperscriptPrograms :
        source = SuperscriptSource(i) =>
            /\ i.operand \in ClosedOperands => SuperscriptIsPower(i)
            /\ i.operand \in LetterOperands =>
                   /\ "tokenize_source" \in called =>
                          \A k \in 1..Len(tokens) : tokens[k].type # "SUPERSCRIPT_NUMBER"
                   /\ "transpile_source" \in called =>
                          /\ transpile_error.exc = "None"
                          /\ LuaBody(lua) =
                                 SuperscriptStatementLua(i, i.operand.lua \o <<i.digit>>)
            /\ i.operand \in DigitOperands =>
                   /\ "tokenize_source" \in called =>
                          \E k \in 1..Len(tokens) :
                              /\ tokens[k].type = "NUMBER"
                              /\ tokens[k].value = i.operand.text \o <<i.digit>>
                   /\ "transpile_source" \in called =>
                          /\ transpile_error.exc = "TranspilerError"
                          /\ StrContains(transpile_error.msg,
                                         "could not convert string to float")
                          /\ lua = <<>>

\* r with the superscript 2 has been tokenized as one identifier and emitted
\* as it is written
C2_Witness ==
    /\ source = <<"r", "<sup2>", ";">>
    /\ {"tokenize_source", "transpile_source"} \subseteq called
    /\ tokens[1].type = "IDENTIFIER"
    /\ tokens[1].value = <<"r", "<sup2>">>
    /\ LuaBody(lua) = <<"r", "<sup2>">>

\* (a + b) with the superscript 2 has been compiled as the power
C2_ParenthesisWitness ==
    /\ source = Str("(a + b)") \o <<"<sup2>", ";">>
    /\ "transpile_source" \in called
    /\ LuaBody(lua) = Str("((a + b) ^ 2)")

\* ---------------------------------------------------------------------------
\* Programs of one statement written with mathematical characters
\* ---------------------------------------------------------------------------

\* the mathematical characters that are not to be found in Lua text
MathematicalCharacters ==
    {"<pi>", "<times>", "<divide>", "<sup2>", "<sqrt>", "<sub1>", "<sub2>"}

MathematicalOperands == {<<"<pi>">>, Str("r"), Str("2")}

\* a product or quotient of two operands, a square root, an operand with a
\* superscript or a subscript
MathematicalExpressions ==
    {l \o <<" ", op, " ">> \o r :
        l \in MathematicalOperands, op \in {"<times>", "<divide>"},
        r \in MathematicalOperands}
    \cup {<<"<sqrt>">> \o x : x \in MathematicalOperands}
    \cup {<<"r", "<sup2>">>, <<"x", "<sub1>">>, <<"x", "<sub2>">>,
          Str("(a)") \o <<"<sup2>">>, <<"<pi>">>}

MathematicalSources ==
    {(IF declared THEN Str("let a = ") ELSE <<>>) \o e \o Str(";") :
        e \in MathematicalExpressions, declared \in BOOLEAN}

InitMathematical == \E src \in MathematicalSources : Start(src)

SpecMathematical == InitMathematical /\ [][Next]_vars

\* the characters of the set cs found in the text
CharactersIn(text, cs) == {text[k] : k \in 1..Len(text)} \cap cs

\* C3: the Lua text of a successfully compiled program has none of the
\* mathematical characters of the source (pi, times, divide, superscript 2,
\* square root, subscripts 1 and 2): each is replaced by its Lua equivalent,
\* and the constant pi used in an expression is emitted as math.pi
C3_NoMathematicalCharacterLeft ==
    ("transpile_source" \in called /\ transpile_error.exc = "None"
        /\ source \in MathematicalSources) =>
        /\ CharactersIn(lua, MathematicalCharacters) = {}
        /\ "<pi>" \in CharactersIn(source, {"<pi>"}) => Occurrences(lua, Str("math.pi")) >= 1

\* what the code does with the programs of C3: the operators times, divide
\* and square root are replaced by *, / and math.sqrt, the constant pi is
\* emitted as the character it is written with, never as math.pi, and a
\* superscript or subscript after a letter stays in the identifier
C3_OperatorsReplacedConstantKept ==
    ("transpile_source" \in called /\ transpile_error.exc = "None"
        /\ source \in MathematicalSources) =>
        /\ CharactersIn(lua, {"<times>", "<divide>", "<sqrt>"}) = {}
        /\ CharactersIn(lua, {"<pi>"}) = CharactersIn(source, {"<pi>"})
        /\ Occurrences(lua, Str("math.pi")) = 0
        /\ CharactersIn(lua, {"<sub1>", "<sub2>"}) = CharactersIn(source, {"<sub1>", "<sub2>"})

\* 2 times pi has been compiled with * for the operator and the character pi
\* for the constant
C3_Witness ==
    /\ source = <<"2", " ", "<times>", " ", "<pi>", ";">>
    /\ "transpile_source" \in called
    /\ transpile_error.exc = "None"
    /\ LuaBody(lua) = <<"(", "2", " ", "*", " ", "<pi>", ")">>

\* ---------------------------------------------------------------------------
\* Programs of one function written in the mathematical form
\* ---------------------------------------------------------------------------

MathematicalParameters ==
    {[text |-> <<>>, names |-> <<>>],
     [text |-> Str("x"), names |-> <<Str("x")>>],
     [text |-> Str("x, y"), names |-> <<Str("x"), Str("y")>>]}

\* the expressions after the =, each with its node and its Lua text
MathematicalBodies ==
    {[text |-> Str("x + 1"), lua |-> Str("(x + 1)"),
      node |-> [type |-> "BinaryExpression",
                left |-> [type |-> "Identifier", name |-> Str("x"), subscript |-> None],
                operator |-> Str("+"),
                right |-> [type |-> "Literal", value |-> Str("1"), vtype |-> "int"]]],
     [text |-> Str("x * y"), lua |-> Str("(x * y)"),
      node |-> [type |-> "BinaryExpression",
                left |-> [type |-> "Identifier", name |-> Str("x"), subscript |-> None],
                operator |-> Str("*"),
                right |-> [type |-> "Identifier", name |-> Str("y"), subscript |-> None]]],
     [text |-> Str("1"), lua |-> Str("1"),
      node |-> [type |-> "Literal", value |-> Str("1"), vtype |-> "int"]]}

MathematicalFunctions ==
    [name : {Str("f"), Str("area")}, params : MathematicalParameters,
     body : MathematicalBodies, semicolon : BOOLEAN]

MathematicalFunctionSource(i) ==
    i.name \o Str("(") \o i.params.text \o Str(") = ") \o i.body.text
    \o (IF i.semicolon THEN Str(";") ELSE <<>>)

InitMathematicalFunction ==
    \E i \in MathematicalFunctions : Start(MathematicalFunctionSource(i))

SpecMathematicalFunction == InitMathematicalFunction /\ [][Next]_vars

\* the program is one function declaration of that name and those
\* parameters, marked mathematical, whose body is the single statement
\* return <expr>
ParsedAsReturnOfExpression(i) ==
    /\ parse_error.exc = "None"
    /\ Len(ast.statements) = 1
    /\ ast.statements[1].type = "FunctionDeclaration"
    /\ ast.statements[1].name = i.name
    /\ ast.statements[1].is_mathematical
    /\ [k \in 1..Len(ast.statements[1].parameters) |-> ast.statements[1].parameters[k].name]
           = i.params.names
    /\ ast.statements[1].body =
           [type |-> "BlockStatement",
            statements |-> <<[type |-> "ReturnStatement", argument |-> i.body.node]>>]

\* C4: a statement name(params) = expr at statement start is parsed as a
\* function declaration whose body is the single statement return expr, and
\* is compiled to a Lua function of that name and those parameters whose
\* body returns the Lua text of expr: f(x) = x + 1 returns (x + 1)
C4_MathematicalFunctionReturnsExpression ==
    \A i \in MathematicalFunctions :
        source = MathematicalFunctionSource(i) =>
            /\ "parse_source" \in called => ParsedAsReturnOfExpression(i)
            /\ "transpile_source" \in called =>
                   /\ transpile_error.exc = "None"
                   /\ Occurrences(LuaBody(lua),
                                  Str("function ") \o i.name \o Str("(")
                                  \o i.params.text \o Str(")")) = 1
                   /\ Occurrences(LuaBody(lua), Str("return ") \o i.body.lua) = 1

\* what the code does with the programs of C4: the function is parsed as
\* stated, and the Lua function of that name and those parameters returns
\* nil whatever the expression is
C4_MathematicalFunctionReturnsNil ==
    \A i \in MathematicalFunctions :
        source = MathematicalFunctionSource(i) =>
            /\ "parse_source" \in called => ParsedAsReturnOfExpression(i)
            /\ "transpile_source" \in called =>
                   /\ transpile_error.exc = "None"
                   /\ LuaBody(lua) =
                          Str("local function ") \o i.name \o Str("(")
                          \o i.params.text \o Str(")") \o NL
                          \o Str("  return nil") \o NL \o Str("end")

\* f(x) = x + 1 has been parsed as a function returning x + 1 and compiled
\* to a function returning nil
C4_Witness ==
    /\ source = Str("f(x) = x + 1")
    /\ {"parse_source", "transpile_source"} \subseteq called
    /\ ast.statements[1].body.statements[1].argument.type = "BinaryExpression"
    /\ Occurrences(lua, Str("return nil")) = 1
    /\ Occurrences(lua, Str("(x + 1)")) = 0

\* ---------------------------------------------------------------------------
\* Programs of one call of a member
\* ---------------------------------------------------------------------------

\* the receivers, each with its Lua text
CallReceivers ==
    {[text |-> Str("console"), lua |-> Str("console")],
     [text |-> Str("Math"), lua |-> Str("Math")],
     [text |-> Str("xs"), lua |-> Str("xs")],
     [text |-> Str("obj.items"), lua |-> Str("obj.items")],
     [text |-> Str("this"), lua |-> Str("self")]}

\* the eleven methods the claim names
NamedArrayMethods ==
    {Str("map"), Str("filter"), Str("reduce"), Str("forEach"), Str("find"), Str("some"),
     Str("every"), Str("indexOf"), Str("includes"), Str("slice"), Str("concat")}

OtherMethods == {Str("log"), Str("sqrt"), Str("push")}

\* the argument lists, each with the Lua texts of its arguments
CallArguments ==
    {[text |-> <<>>, lua |-> <<>>],
     [text |-> Str("a"), lua |-> <<Str("a")>>],
     [text |-> Str("a, 1"), lua |-> <<Str("a"), Str("1")>>]}

MemberCalls == [recv : CallReceivers, m : NamedArrayMethods \cup OtherMethods,
                args : CallArguments]

MemberCallSource(i) ==
    i.recv.text \o Str(".") \o i.m \o Str("(") \o i.args.text \o Str(");")

\* the chained call of the specification and the text expected for it
ChainedCallSource ==
    Str("[1,2,3].map(x => x ") \o <<"<times>">> \o Str(" 2).reduce((a,b) => a + b, 0);")

ChainedCallLua ==
    Str("_LS.reduce(_LS.map(_LS.array({1, 2, 3}), function(x) return (x * 2) end), ")
    \o Str("function(a, b) return (a + b) end, 0)")

InitMemberCall ==
    \/ \E i \in MemberCalls : Start(MemberCallSource(i))
    \/ Start(ChainedCallSource)

SpecMemberCall == InitMemberCall /\ [][Next]_vars

RECURSIVE CommaSeparated(_)

\* the texts separated by a comma and a blank
CommaSeparated(texts) ==
    IF texts = <<>> THEN <<>>
    ELSE IF Len(texts) = 1 THEN texts[1]
    ELSE texts[1] \o Str(", ") \o CommaSeparated(Tail(texts))

\* the Lua text the claim states for the call
ExpectedMemberCall(i) ==
    IF i.recv.text = Str("console") /\ i.m = Str("log")
    THEN Str("print(") \o CommaSeparated(i.args.lua) \o Str(")")
    ELSE IF i.recv.text = Str("Math")
    THEN Str("math.") \o i.m \o Str("(") \o CommaSeparated(i.args.lua) \o Str(")")
    ELSE IF i.m \in NamedArrayMethods
    THEN Str("_LS.") \o i.m \o Str("(") \o CommaSeparated(<<i.recv.lua>> \o i.args.lua)
         \o Str(")")
    ELSE i.recv.lua \o Str(":") \o i.m \o Str("(") \o CommaSeparated(i.args.lua) \o Str(")")

\* C5: a call recv.m(args) is emitted as print(args) for console.log, as
\* math.m(args) when recv is the identifier Math, as _LS.m(recv, args...)
\* when m is one of map, filter, reduce, forEach, find, some, every,
\* indexOf, includes, slice, concat, and as recv:m(args) for every other
\* method; chained calls of array methods nest, the inner call being the
\* first argument of the outer one
C5_MemberCallsByReceiverAndMethod ==
    "transpile_source" \in called =>
        /\ \A i \in MemberCalls :
               source = MemberCallSource(i) =>
                   /\ transpile_error.exc = "None"
                   /\ LuaBody(lua) = ExpectedMemberCall(i)
        /\ source = ChainedCallSource =>
               /\ transpile_error.exc = "None"
               /\ LuaBody(lua) = ChainedCallLua

\* obj.items.map(a, 1) has been emitted with the receiver as first argument
C5_Witness ==
    /\ source = Str("obj.items.map(a, 1);")
    /\ "transpile_source" \in called
    /\ LuaBody(lua) = Str("_LS.map(obj.items, a, 1)")

\* the chained call has been emitted as nested calls
C5_ChainedWitness ==
    /\ source = ChainedCallSource
    /\ "transpile_source" \in called
    /\ LuaBody(lua) = ChainedCallLua

\* this.push(a) has been emitted with the colon
C5_ColonWitness ==
    /\ source = Str("this.push(a);")
    /\ "transpile_source" \in called
    /\ LuaBody(lua) = Str("self:push(a)")

\* ---------------------------------------------------------------------------
\* Programs of one class with a constructor
\* ---------------------------------------------------------------------------

\* the constructors, each with the Lua lines of its body
ClassConstructors ==
    {[params |-> <<>>, body |-> <<>>, lua |-> <<>>],
     [params |-> Str("x"), body |-> Str(" this.x = x;"), lua |-> <<Str("self.x = x")>>],
     [params |-> Str("x, y"), body |-> Str(" this.x = x; this.y = y;"),
      lua |-> <<Str("self.x = x"), Str("self.y = y")>>]}

\* the methods, each with the first line of its Lua function after the
\* class name and with the Lua line of its body
ClassMethods ==
    {<<>>,
     <<[text |-> Str("mag() { return this.x; }"), head |-> Str(":mag()"),
        lua |-> Str("return self.x")]>>,
     <<[text |-> Str("mag() { return this.x; }"), head |-> Str(":mag()"),
        lua |-> Str("return self.x")],
       [text |-> Str("add(o, p) { return o; }"), head |-> Str(":add(o, p)"),
        lua |-> Str("return o")]>>}

\* a class of that name with the constructor written before or after its
\* first method, followed or not by let v = new <name>(3, 4)
ClassPrograms ==
    [name : {Str("V"), Str("Point")}, constructor : ClassConstructors,
     methods : ClassMethods, constructor_first : BOOLEAN, instantiated : BOOLEAN]

ConstructorText(i) ==
    Str("constructor(") \o i.constructor.params \o Str(") {") \o i.constructor.body
    \o Str(" }")

RECURSIVE MethodTexts(_)

MethodTexts(methods) ==
    IF methods = <<>> THEN <<>>
    ELSE Str(" ") \o methods[1].text \o MethodTexts(Tail(methods))

ClassSource(i) ==
    Str("class ") \o i.name \o Str(" {")
    \o (IF i.constructor_first \/ i.methods = <<>>
        THEN Str(" ") \o ConstructorText(i) \o MethodTexts(i.methods)
        ELSE Str(" ") \o i.methods[1].text \o Str(" ") \o ConstructorText(i)
             \o MethodTexts(Tail(i.methods)))
    \o Str(" }")
    \o (IF i.instantiated THEN Str(" let v = new ") \o i.name \o Str("(3, 4);") ELSE <<>>)

InitClass == \E i \in ClassPrograms : Start(ClassSource(i))

SpecClass == InitClass /\ [][Next]_vars

\* the first index from the given one on at which the piece is found in the
\* text, 0 when it is not found
IndexFrom(text, piece, from) ==
    LET found == {k \in from..(Len(text) - Len(piece) + 1) :
                     SubSeq(text, k, k + Len(piece) - 1) = piece}
    IN IF found = {} THEN 0 ELSE CHOOSE k \in found : \A j \in found : k <= j

RECURSIVE InOrder(_, _, _)

\* the pieces are found in the text one after the other, from the given
\* index on
InOrder(text, pieces, from) ==
    \/ pieces = <<>>
    \/ LET k == IndexFrom(text, pieces[1], from)
       IN k # 0 /\ InOrder(text, Tail(pieces), k + Len(pieces[1]))

RECURSIVE MethodPieces(_, _)

MethodPieces(name, methods) ==
    IF methods = <<>> THEN <<>>
    ELSE <<Str("function ") \o name \o methods[1].head, methods[1].lua, Str("end")>>
         \o MethodPieces(name, Tail(methods))

\* the pieces of the Lua text of the class, in the order the claim states
ClassPieces(i) ==
    <<Str("local ") \o i.name \o Str(" = {}"),
      i.name \o Str(".__index = ") \o i.name,
      Str("function ") \o i.name \o Str(".new(") \o i.constructor.params \o Str(")"),
      Str("local self = setmetatable({}, ") \o i.name \o Str(")")>>
    \o i.constructor.lua
    \o <<Str("return self"), Str("end")>>
    \o MethodPieces(i.name, i.methods)
    \o (IF i.instantiated THEN <<Str("local v = ") \o i.name \o Str(".new(3, 4)")>>
        ELSE <<>>)

\* C6: for a class C with a constructor the Lua text has, in this order,
\* local C = {}, C.__index = C, function C.new(<constructor parameters>)
\* whose body creates self with setmetatable({}, C), the constructor body
\* with this written as self, return self, and then one function
\* C:<m>(<parameters>) for each method; new C(args) is emitted as C.new(args)
C6_ClassAsMetatable ==
    \A i \in ClassPrograms :
        ("transpile_source" \in called /\ source = ClassSource(i)) =>
            /\ transpile_error.exc = "None"
            /\ InOrder(LuaBody(lua), ClassPieces(i), 1)
            /\ Occurrences(LuaBody(lua), Str("function ") \o i.name \o Str(":"))
                   = Len(i.methods)
            /\ Occurrences(LuaBody(lua), Str("function ") \o i.name \o Str(".new(")) = 1
            /\ Occurrences(LuaBody(lua), Str("this")) = 0
            /\ Occurrences(LuaBody(lua), Str("new ")) = 0

\* a class with its constructor written after its first method has been
\* emitted with the constructor first, and its instance is made by V.new
C6_Witness ==
    /\ source = Str("class V { mag() { return this.x; } constructor(x, y) { this.x = x; this.y = y; }")
                \o Str(" add(o, p) { return o; } } let v = new V(3, 4);")
    /\ "transpile_source" \in called
    /\ LuaBody(lua) =
           Str("local V = {}") \o NL \o Str("V.__index = V") \o NL
           \o Str("function V.new(x, y)") \o NL
           \o Str("  local self = setmetatable({}, V)") \o NL
           \o Str("  self.x = x") \o NL \o Str("  self.y = y") \o NL
           \o Str("  return self") \o NL \o Str("end") \o NL
           \o Str("function V:mag()") \o NL \o Str("  return self.x") \o NL \o Str("end") \o NL
           \o Str("function V:add(o, p)") \o NL \o Str("  return o") \o NL \o Str("end") \o NL
           \o Str("local v = V.new(3, 4)")

\* ---------------------------------------------------------------------------
\* Programs of one for-of loop
\* ---------------------------------------------------------------------------

\* the words before the loop variable: a declaration keyword or nothing
ForOfKeywords == {Str("let "), Str("const "), Str("var "), <<>>}

ForOfIterables ==
    {[text |-> Str("xs"), lua |-> Str("xs")],
     [text |-> Str("f(x)"), lua |-> Str("f(x)")],
     [text |-> Str("xs.items"), lua |-> Str("xs.items")]}

\* the bodies, each with the lines of its Lua text
ForOfBodies ==
    {[text |-> Str("{ s; }"), lua |-> <<Str("s")>>],
     [text |-> Str("s;"), lua |-> <<Str("s")>>],
     [text |-> Str("{ break; }"), lua |-> <<Str("break")>>],
     [text |-> Str("break;"), lua |-> <<Str("break")>>],
     [text |-> Str("{ continue; }"), lua |-> <<Str("goto continue")>>],
     [text |-> Str("{ for (b of ys) { s; } }"),
      lua |-> <<Str("for _, b in ipairs(ys) do"), Str("  s"), Str("end")>>],
     [text |-> Str("for (const b of ys) break;"),
      lua |-> <<Str("for _, b in ipairs(ys) do"), Str("  break"), Str("end")>>],
     [text |-> Str("{ for (let b of ys) { continue; } break; }"),
      lua |-> <<Str("for _, b in ipairs(ys) do"), Str("  goto continue"), Str("end"),
                Str("break")>>]}

ForOfPrograms ==
    [keyword : ForOfKeywords, name : {Str("n"), Str("item")}, iterable : ForOfIterables,
     body : ForOfBodies]

ForOfSource(i) ==
    Str("for (") \o i.keyword \o i.name \o Str(" of ") \o i.iterable.text \o Str(") ")
    \o i.body.text

InitForOf == \E i \in ForOfPrograms : Start(ForOfSource(i))

SpecForOf == InitForOf /\ [][Next]_vars

RECURSIVE IndentedLines(_)

\* each line after two blanks and before a line break
IndentedLines(lines) ==
    IF lines = <<>> THEN <<>>
    ELSE Str("  ") \o lines[1] \o NL \o IndentedLines(Tail(lines))

ForOfLua(i) ==
    Str("for _, ") \o i.name \o Str(" in ipairs(") \o i.iterable.lua \o Str(") do") \o NL
    \o IndentedLines(i.body.lua) \o Str("end")

\* C7: a loop for (let|const|var x of iter) body, and the bare form
\* for (x of iter) body, is parsed as a for-of loop and compiled to
\* for _, x in ipairs(<iter>) do <body> end; a for-of loop in the body is
\* compiled to a loop of the same shape inside, and break and continue are
\* accepted in the body
C7_ForOfAsIpairsLoop ==
    \A i \in ForOfPrograms :
        source = ForOfSource(i) =>
            /\ "parse_source" \in called =>
                   /\ parse_error.exc = "None"
                   /\ Len(ast.statements) = 1
                   /\ ast.statements[1].type = "ForOfStatement"
            /\ "transpile_source" \in called =>
                   /\ transpile_error.exc = "None"
                   /\ LuaBody(lua) = ForOfLua(i)

\* the bare form with a for-of loop and a break in its body has been
\* compiled to two loops, one inside the other
C7_Witness ==
    /\ source = Str("for (item of xs.items) { for (let b of ys) { continue; } break; }")
    /\ {"parse_source", "transpile_source"} \subseteq called
    /\ ast.statements[1].type = "ForOfStatement"
    /\ LuaBody(lua) =
           Str("for _, item in ipairs(xs.items) do") \o NL
           \o Str("  for _, b in ipairs(ys) do") \o NL
           \o Str("    goto continue") \o NL
           \o Str("  end") \o NL
           \o Str("  break") \o NL
           \o Str("end")

\* ---------------------------------------------------------------------------
\* Sources of one template literal
\* ---------------------------------------------------------------------------

MaxInterpolations == 2

\* the text segments, the empty one among them
TemplateTexts == {<<>>, Str("ab")}

\* the raw texts between ${ and the closing brace that balances it
TemplateExpressionTexts == {Str("x"), Str("x + 1"), Str("{k}")}

\* a template is the sequence of its interpolations and the sequence of the
\* text segments around them, one more than the interpolations
TemplateLiterals ==
    UNION {[texts : [1..(n + 1) -> TemplateTexts],
            expressions : [1..n -> TemplateExpressionTexts]] : n \in 0..MaxInterpolations}

RECURSIVE TemplateInside(_, _)

\* the text of the template from the k-th text segment on
TemplateInside(i, k) ==
    i.texts[k]
    \o (IF k <= Len(i.expressions)
        THEN Str("${") \o i.expressions[k] \o Str("}") \o TemplateInside(i, k + 1)
        ELSE <<>>)

TemplateSource(i) == <<BACKTICK>> \o TemplateInside(i, 1) \o <<BACKTICK>>

InitTemplate == \E i \in TemplateLiterals : Start(TemplateSource(i))

SpecTemplate == InitTemplate /\ [][Next]_vars

\* the types and values of the tokens before the EOF token
TypesAndValues(toks) ==
    [k \in 1..(Len(toks) - 1) |-> [type |-> toks[k].type, value |-> toks[k].value]]

RECURSIVE TemplateSequence(_, _)

\* the tokens the claim states from the k-th text segment on
TemplateSequence(i, k) ==
    IF k > Len(i.expressions)
    THEN <<[type |-> "TEMPLATE_END", value |-> i.texts[k]]>>
    ELSE <<[type |-> IF k = 1 THEN "TEMPLATE_START" ELSE "TEMPLATE_MIDDLE",
            value |-> i.texts[k]],
           [type |-> "TEMPLATE_EXPRESSION", value |-> i.expressions[k]]>>
         \o TemplateSequence(i, k + 1)

ExpectedTemplateTokens(i) ==
    IF i.expressions = <<>>
    THEN <<[type |-> "TEMPLATE_STRING", value |-> i.texts[1]]>>
    ELSE TemplateSequence(i, 1)

\* C8: for a template literal with n >= 1 interpolations tokenize returns
\* TEMPLATE_START, TEMPLATE_EXPRESSION, then n-1 times TEMPLATE_MIDDLE,
\* TEMPLATE_EXPRESSION, then TEMPLATE_END, also when a text segment is empty;
\* each TEMPLATE_EXPRESSION has the raw text between ${ and the brace that
\* balances it; a template without interpolation is one TEMPLATE_STRING
C8_TemplateTokenSequence ==
    \A i \in TemplateLiterals :
        ("tokenize_source" \in called /\ source = TemplateSource(i)) =>
            /\ lexer_error.kind = "None"
            /\ tokens[Len(tokens)].type = "EOF"
            /\ TypesAndValues(tokens) = ExpectedTemplateTokens(i)

\* what the code does with the templates of C8: the sequence of the claim
\* without the TEMPLATE_START and TEMPLATE_MIDDLE tokens of empty text
C8_EmptySegmentsHaveNoToken ==
    \A i \in TemplateLiterals :
        ("tokenize_source" \in called /\ source = TemplateSource(i)) =>
            /\ lexer_error.kind = "None"
            /\ tokens[Len(tokens)].type = "EOF"
            /\ TypesAndValues(tokens) =
                   SelectSeq(ExpectedTemplateTokens(i),
                             LAMBDA t : ~(t.type \in {"TEMPLATE_START", "TEMPLATE_MIDDLE"}
                                          /\ t.value = <<>>))

\* a template of two interpolations with no text before, between and after
\* them has been tokenized as two TEMPLATE_EXPRESSION and one TEMPLATE_END
C8_Witness ==
    /\ source = <<BACKTICK>> \o Str("${x}${{k}}") \o <<BACKTICK>>
    /\ "tokenize_source" \in called
    /\ TypesAndValues(tokens) =
           <<[type |-> "TEMPLATE_EXPRESSION", value |-> Str("x")],
             [type |-> "TEMPLATE_EXPRESSION", value |-> Str("{k}")],
             [type |-> "TEMPLATE_END", value |-> <<>>]>>

\* a template with text around its two interpolations has been tokenized
\* as the claim states
C8_FullWitness ==
    /\ source = <<BACKTICK>> \o Str("ab${x + 1}ab${x}ab") \o <<BACKTICK>>
    /\ "tokenize_source" \in called
    /\ TypesAndValues(tokens) =
           <<[type |-> "TEMPLATE_START", value |-> Str("ab")],
             [type |-> "TEMPLATE_EXPRESSION", value |-> Str("x + 1")],
             [type |-> "TEMPLATE_MIDDLE", value |-> Str("ab")],
             [type |-> "TEMPLATE_EXPRESSION", value |-> Str("x")],
             [type |-> "TEMPLATE_END", value |-> Str("ab")]>>

\* ---------------------------------------------------------------------------
\* Programs of one template literal with identifiers interpolated
\* ---------------------------------------------------------------------------

FormatTexts == {<<>>, Str("ab"), Str("cd")}

FormatTemplates ==
    UNION {[texts : [1..(n + 1) -> FormatTexts],
            expressions : [1..n -> {Str("x"), Str("yy")}]] : n \in 1..MaxInterpolations}

FormatSource(i) == TemplateSource(i) \o Str(";")

InitFormat == \E i \in FormatTemplates : Start(FormatSource(i))

SpecFormat == InitFormat /\ [][Next]_vars

RECURSIVE FormatOf(_, _)

\* the text segments from the k-th on in source order, with %s at the place
\* of each interpolation
FormatOf(i, k) ==
    i.texts[k]
    \o (IF k <= Len(i.expressions) THEN Str("%s") \o FormatOf(i, k + 1) ELSE <<>>)

StringFormatCall(format, arguments) ==
    Str("string.format(\"") \o format \o Str("\", ") \o CommaSeparated(arguments) \o Str(")")

\* the text segments that have a token: those before an interpolation when
\* they are not empty, and the last one
SegmentsWithToken(i) ==
    SelectSeq(SubSeq(i.texts, 1, Len(i.expressions)), LAMBDA t : t # <<>>)
    \o <<i.texts[Len(i.texts)]>>

RECURSIVE FormatOfSegments(_, _, _)

\* the k-th segment that has a token before the k-th %s, and the last
\* segment at the end when there are more segments than interpolations
FormatOfSegments(segments, n, k) ==
    IF k <= n
    THEN (IF k <= Len(segments) THEN segments[k] ELSE <<>>) \o Str("%s")
         \o FormatOfSegments(segments, n, k + 1)
    ELSE IF Len(segments) > n THEN segments[Len(segments)] ELSE <<>>

\* C9: for a template literal with k >= 1 interpolations the Lua text is
\* string.format("<fmt>", a1, ..., ak), <fmt> being the text segments in
\* source order with one %s at the place of each interpolation and a1..ak
\* the interpolations in source order, whatever the arrangement: also when
\* the template starts with an interpolation or two interpolations have no
\* text between them
C9_FormatInSourceOrder ==
    \A i \in FormatTemplates :
        ("transpile_source" \in called /\ source = FormatSource(i)) =>
            /\ transpile_error.exc = "None"
            /\ LuaBody(lua) = StringFormatCall(FormatOf(i, 1), i.expressions)

\* what the code does with the templates of C9: a template that starts
\* with an interpolation is rejected; otherwise the interpolations are the
\* arguments in source order, and the format has before each %s the next
\* of the segments that have a token, so that it is the format of the claim
\* when no segment between two interpolations is empty
C9_FormatFromSegmentsWithToken ==
    \A i \in FormatTemplates :
        ("transpile_source" \in called /\ source = FormatSource(i)) =>
            IF i.texts[1] = <<>>
            THEN /\ transpile_error.exc = "TranspilerError"
                 /\ transpile_error.msg =
                        "Transpilation failed: Parse Error: Unexpected token: "
                        \o Flat(i.expressions[1])
                 /\ lua = <<>>
            ELSE /\ transpile_error.exc = "None"
                 /\ LuaBody(lua) =
                        StringFormatCall(
                            FormatOfSegments(SegmentsWithToken(i), Len(i.expressions), 1),
                            i.expressions)
                 /\ (\A k \in 1..Len(i.expressions) : i.texts[k] # <<>>) =>
                        LuaBody(lua) = StringFormatCall(FormatOf(i, 1), i.expressions)

\* two interpolations with no text between them: the text after them has
\* been put between their %s
C9_Witness ==
    /\ source = <<BACKTICK>> \o Str("ab${x}${yy}cd") \o <<BACKTICK, ";">>
    /\ "transpile_source" \in called
    /\ LuaBody(lua) = Str("string.format(\"ab%scd%s\", x, yy)")

\* a template that starts with an interpolation has been rejected
C9_RejectedWitness ==
    /\ source = <<BACKTICK>> \o Str("${x}cd") \o <<BACKTICK, ";">>
    /\ "transpile_source" \in called
    /\ transpile_error.exc = "TranspilerError"

\* ---------------------------------------------------------------------------
\* Programs of one template literal with one expression interpolated
\* ---------------------------------------------------------------------------

\* interpolations that are one identifier, each with its Lua text
IdentifierInterpolations ==
    {[text |-> Str("x"), lua |-> Str("x")],
     [text |-> Str("this"), lua |-> Str("self")]}

\* interpolations that are another expression, each with its Lua text; the
\* first two are those of the claim
ExpressionInterpolations ==
    {[text |-> <<"<pi>", " ", "<times>", " ", "r", "<sup2>">>,
      lua |-> Str("(math.pi * (r ^ 2))")],
     [text |-> Str("Math.sqrt(x") \o <<"<sup2>">> \o Str(" + y") \o <<"<sup2>">> \o Str(")"),
      lua |-> Str("math.sqrt(((x ^ 2) + (y ^ 2)))")],
     [text |-> Str("x + 1"), lua |-> Str("(x + 1)")],
     [text |-> Str("a * b"), lua |-> Str("(a * b)")],
     [text |-> Str("f(x)"), lua |-> Str("f(x)")],
     [text |-> Str("this.x"), lua |-> Str("self.x")],
     [text |-> Str("Math.sqrt(x)"), lua |-> Str("math.sqrt(x)")],
     [text |-> Str("xs.map(f)"), lua |-> Str("_LS.map(xs, f)")],
     [text |-> Str("1"), lua |-> Str("1")],
     [text |-> Str(" x "), lua |-> Str("x")]}

InterpolationPrograms ==
    [before : {Str("a"), Str("r = ")},
     expression : IdentifierInterpolations \cup ExpressionInterpolations,
     after : {<<>>, Str("!")}, declared : BOOLEAN]

InterpolationSource(i) ==
    (IF i.declared THEN Str("let s = ") ELSE <<>>)
    \o <<BACKTICK>> \o i.before \o Str("${") \o i.expression.text \o Str("}") \o i.after
    \o <<BACKTICK, ";">>

InitInterpolation == \E i \in InterpolationPrograms : Start(InterpolationSource(i))

SpecInterpolation == InitInterpolation /\ [][Next]_vars

\* the Lua text of the program when the argument of string.format is the
\* given text
InterpolationLua(i, argument) ==
    (IF i.declared THEN Str("local s = ") ELSE <<>>)
    \o StringFormatCall(i.before \o Str("%s") \o i.after, <<argument>>)

\* C10: an interpolation that holds an arbitrary expression is emitted as
\* the Lua text generated for that expression, not as its source text: pi
\* times r squared gives the argument (math.pi * (r ^ 2)), and
\* Math.sqrt(x squared + y squared) gives math.sqrt(((x ^ 2) + (y ^ 2)))
C10_InterpolationIsGenerated ==
    \A i \in InterpolationPrograms :
        ("transpile_source" \in called /\ source = InterpolationSource(i)) =>
            /\ transpile_error.exc = "None"
            /\ LuaBody(lua) = InterpolationLua(i, i.expression.lua)

\* what the code does with the programs of C10: an interpolation that is
\* one identifier is emitted as the Lua text of that identifier; every
\* other interpolation is emitted as its source text between double quotes
C10_InterpolationIsQuotedSource ==
    \A i \in InterpolationPrograms :
        ("transpile_source" \in called /\ source = InterpolationSource(i)) =>
            /\ transpile_error.exc = "None"
            /\ i.expression \in IdentifierInterpolations =>
                   LuaBody(lua) = InterpolationLua(i, i.expression.lua)
            /\ i.expression \in ExpressionInterpolations =>
                   LuaBody(lua) =
                       InterpolationLua(i, Str("\"") \o i.expression.text \o Str("\""))

\* the first interpolation of the claim has been emitted as its source text
\* between double quotes
C10_Witness ==
    /\ source = <<BACKTICK>> \o Str("a${")
                \o <<"<pi>", " ", "<times>", " ", "r", "<sup2>">> \o Str("}")
                \o <<BACKTICK, ";">>
    /\ "transpile_source" \in called
    /\ LuaBody(lua) = Str("string.format(\"a%s\", \"")
                      \o <<"<pi>", " ", "<times>", " ", "r", "<sup2>">> \o Str("\")")

\* the identifier this has been emitted as self
C10_IdentifierWitness ==
    /\ source = Str("let s = ") \o <<BACKTICK>> \o Str("a${this}!") \o <<BACKTICK, ";">>
    /\ "transpile_source" \in called
    /\ LuaBody(lua) = Str("local s = string.format(\"a%s!\", self)")

\* ---------------------------------------------------------------------------
\* Programs of one + expression
\* ---------------------------------------------------------------------------

\* operands of string shape, each with its Lua text
StringShapedOperands ==
    {[text |-> Str("\"s\""), lua |-> Str("\"s\"")],
     [text |-> Str("'s'"), lua |-> Str("\"s\"")],
     [text |-> <<BACKTICK, "t", BACKTICK>>, lua |-> Str("\"t\"")],
     [text |-> <<BACKTICK>> \o Str("t${x}") \o <<BACKTICK>>,
      lua |-> Str("string.format(\"t%s\", x)")],
     [text |-> Str("x.toString()"), lua |-> Str("x:toString()")],
     [text |-> Str("x.substring(1)"), lua |-> Str("x:substring(1)")],
     [text |-> Str("x.charAt(0)"), lua |-> Str("x:charAt(0)")],
     [text |-> Str("x.slice(1)"), lua |-> Str("_LS.slice(x, 1)")],
     [text |-> Str("(\"s\" + b)"), lua |-> Str("(\"s\" .. b)")],
     [text |-> Str("(a + x.charAt(0))"), lua |-> Str("(a .. x:charAt(0))")]}

\* operands of no string shape
OtherOperands ==
    {[text |-> Str("a"), lua |-> Str("a")],
     [text |-> Str("1"), lua |-> Str("1")],
     [text |-> Str("x.trim()"), lua |-> Str("x:trim()")],
     [text |-> Str("toString(x)"), lua |-> Str("toString(x)")],
     [text |-> Str("x.toString"), lua |-> Str("x.toString")],
     [text |-> Str("(a + b)"), lua |-> Str("(a + b)")],
     [text |-> Str("(a * \"s\")"), lua |-> Str("(a * \"s\")")],
     [text |-> Str("(b - \"s\")"), lua |-> Str("(b - \"s\")")]}

PlusPrograms ==
    [left : StringShapedOperands \cup OtherOperands,
     right : StringShapedOperands \cup OtherOperands]

PlusSource(i) == i.left.text \o Str(" + ") \o i.right.text \o Str(";")

\* the two chains of the claim, written without parentheses
PlusChains ==
    {[text |-> Str("\"a\" + b + c;"), lua |-> Str("((\"a\" .. b) .. c)")],
     [text |-> Str("a + b + \"c\";"), lua |-> Str("((a + b) .. \"c\")")],
     [text |-> Str("a + b + c;"), lua |-> Str("((a + b) + c)")]}

InitPlus ==
    \/ \E i \in PlusPrograms : Start(PlusSource(i))
    \/ \E chain \in PlusChains : Start(chain.text)

SpecPlus == InitPlus /\ [][Next]_vars

\* the programs that begin with a parenthesis opened before a string
\* literal: the parser takes the parenthesis for the parameters of an
\* arrow function and rejects them, so that no + is emitted for them
RejectedPlusPrograms == {i \in PlusPrograms : i.left.text = Str("(\"s\" + b)")}

\* C21: a binary + is emitted as (lhs .. rhs) exactly when one of its
\* operands is a string literal, a template literal, a call of toString,
\* substring, charAt or slice, or a + expression that is itself emitted as
\* a concatenation, and as (lhs + rhs) in every other case
C21_ConcatenationByOperandShape ==
    "transpile_source" \in called =>
        /\ \A i \in PlusPrograms :
               source = PlusSource(i) =>
                   /\ i \notin RejectedPlusPrograms => transpile_error.exc = "None"
                   /\ transpile_error.exc = "None" =>
                      LuaBody(lua) =
                          Str("(") \o i.left.lua
                          \o (IF i.left \in StringShapedOperands
                                 \/ i.right \in StringShapedOperands
                              THEN Str(" .. ") ELSE Str(" + "))
                          \o i.right.lua \o Str(")")
        /\ \A chain \in PlusChains :
               source = chain.text =>
                   /\ transpile_error.exc = "None"
                   /\ LuaBody(lua) = chain.lua

\* a + added to a concatenation in parentheses has been emitted as a
\* concatenation
C21_Witness ==
    /\ source = Str("a + (\"s\" + b);")
    /\ "transpile_source" \in called
    /\ LuaBody(lua) = Str("(a .. (\"s\" .. b))")

\* a + of two operands of no string shape has been emitted as an addition
C21_AdditionWitness ==
    /\ source = Str("x.trim() + (a * \"s\");")
    /\ "transpile_source" \in called
    /\ LuaBody(lua) = Str("(x:trim() + (a * \"s\"))")

\* ---------------------------------------------------------------------------
\* Programs with one throw statement
\* ---------------------------------------------------------------------------

\* the thrown expressions, each with its Lua text
ThrownExpressions ==
    {[text |-> Str("new Error(\"m\")"), lua |-> Str("Error.new(\"m\")")],
     [text |-> Str("x"), lua |-> Str("x")],
     [text |-> Str("\"oops\""), lua |-> Str("\"oops\"")],
     [text |-> Str("e.message"), lua |-> Str("e.message")],
     [text |-> Str("f(x)"), lua |-> Str("f(x)")]}

\* the places of the statement: alone, in a function body, under an if
ThrowPlaces ==
    {[before |-> <<>>, after |-> <<>>],
     [before |-> Str("function g() { "), after |-> Str(" }")],
     [before |-> Str("if (a) "), after |-> <<>>],
     [before |-> Str("if (a) { s; "), after |-> Str(" }")]}

ThrowPrograms == [thrown : ThrownExpressions, place : ThrowPlaces, semicolon : BOOLEAN]

ThrowSource(i) ==
    i.place.before \o Str("throw ") \o i.thrown.text
    \o (IF i.semicolon THEN Str(";") ELSE <<>>) \o i.place.after

InitThrow == \E i \in ThrowPrograms : Start(ThrowSource(i))

SpecThrow == InitThrow /\ [][Next]_vars

\* C22: a statement throw <expr> is compiled to the Lua statement
\* error(<expr>), <expr> being the Lua text of the thrown expression:
\* throw new Error("m") gives error(Error.new("m"))
C22_ThrowAsError ==
    \A i \in ThrowPrograms :
        ("transpile_source" \in called /\ source = ThrowSource(i)) =>
            /\ transpile_error.exc = "None"
            /\ Occurrences(LuaBody(lua), Str("error(") \o i.thrown.lua \o Str(")")) = 1

\* what the code does with the programs of C22: the statement is parsed,
\* and the line emitted for it is the comment of a node the generator does
\* not handle; the thrown expression is not emitted
C22_ThrowAsUnhandledComment ==
    \A i \in ThrowPrograms :
        source = ThrowSource(i) =>
            /\ "parse_source" \in called => parse_error.exc = "None"
            /\ "transpile_source" \in called =>
                   /\ transpile_error.exc = "None"
                   /\ Occurrences(LuaBody(lua),
                                  Str("-- Unhandled node type: ThrowStatement")) = 1
                   /\ Occurrences(LuaBody(lua), Str("error(")) = 0
                   /\ Occurrences(LuaBody(lua), i.thrown.lua) = 0

\* throw new Error("m") has been parsed as a throw statement of a new
\* expression and compiled to the comment
C22_Witness ==
    /\ source = Str("throw new Error(\"m\");")
    /\ {"parse_source", "transpile_source"} \subseteq called
    /\ ast.statements[1].type = "ThrowStatement"
    /\ ast.statements[1].argument.type = "NewExpression"
    /\ LuaBody(lua) = Str("-- Unhandled node type: ThrowStatement")

\* ---------------------------------------------------------------------------
\* Programs of one loop with a continue in its body
\* ---------------------------------------------------------------------------

\* the first words of the loops, up to the body
LoopHeads ==
    {Str("while (a) "), Str("for (;;) "), Str("for (let i = 0; i < n; i++) "),
     Str("for (x of xs) "), Str("for (const x of xs) ")}

ContinueBodies ==
    {Str("continue;"), Str("{ continue; }"), Str("{ s; continue; }"),
     Str("{ if (b) continue; s; }"), Str("{ if (b) { continue; } s; }")}

ContinueSources == {head \o body : head \in LoopHeads, body \in ContinueBodies}

InitContinue == \E src \in ContinueSources : Start(src)

SpecContinue == InitContinue /\ [][Next]_vars

\* the index of the last place at which the piece is found in the text,
\* 0 when it is not found
LastIndex(text, piece) ==
    LET found == {k \in 1..(Len(text) - Len(piece) + 1) :
                     SubSeq(text, k, k + Len(piece) - 1) = piece}
    IN IF found = {} THEN 0 ELSE CHOOSE k \in found : \A j \in found : j <= k

\* C23: every continue is emitted as goto continue, and the loop whose body
\* has the continue has the label ::continue:: at the end of its body, after
\* the jump and before the end of the loop, so that the jump has a target
C23_ContinueHasLabel ==
    ("transpile_source" \in called /\ source \in ContinueSources) =>
        /\ transpile_error.exc = "None"
        /\ Occurrences(LuaBody(lua), Str("goto continue")) = 1
        /\ Occurrences(LuaBody(lua), Str("::continue::")) = 1
        /\ InOrder(LuaBody(lua), <<Str("goto continue"), Str("::continue::"), Str("end")>>, 1)

\* what the code does with the programs of C23: the continue is emitted as
\* goto continue inside the loop, and no label is emitted
C23_ContinueWithoutLabel ==
    ("transpile_source" \in called /\ source \in ContinueSources) =>
        /\ transpile_error.exc = "None"
        /\ Occurrences(LuaBody(lua), Str("goto continue")) = 1
        /\ Occurrences(LuaBody(lua), Str("::continue::")) = 0
        /\ IndexFrom(LuaBody(lua), Str("goto continue"), 1)
               < LastIndex(LuaBody(lua), Str("end"))

\* a while loop with a continue under an if has been compiled to a loop
\* with the jump and without the label
C23_Witness ==
    /\ source = Str("while (a) { if (b) continue; s; }")
    /\ "transpile_source" \in called
    /\ LuaBody(lua) =
           Str("while a do") \o NL
           \o Str("  if b then") \o NL
           \o Str("    goto continue") \o NL
           \o Str("  end") \o NL
           \o Str("  s") \o NL
           \o Str("end")

\* ---------------------------------------------------------------------------
\* Declarations of one array pattern with and without holes
\* ---------------------------------------------------------------------------

MaxSlots == 3

\* a pattern is the sequence of its slots, TRUE for a named element and
\* FALSE for a hole; the last slot is a named element, since a comma before
\* the closing bracket opens no slot
ArrayPatterns ==
    UNION {{slots \in [1..n -> BOOLEAN] : slots[n]} : n \in 2..MaxSlots}

\* the name written in the k-th slot
SlotName(k) == <<Str("abcd")[k]>>

RECURSIVE SlotTexts(_, _, _)

\* the slots from the k-th on, separated by the given text
SlotTexts(slots, separator, k) ==
    (IF slots[k] THEN SlotName(k) ELSE <<>>)
    \o (IF k < Len(slots) THEN separator \o SlotTexts(slots, separator, k + 1) ELSE <<>>)

PatternPrograms ==
    [kind : {Str("let"), Str("const"), Str("var")}, slots : ArrayPatterns,
     separator : {Str(","), Str(", ")}]

PatternSource(i) ==
    i.kind \o Str(" [") \o SlotTexts(i.slots, i.separator, 1) \o Str("] = xs;")

InitPattern == \E i \in PatternPrograms : Start(PatternSource(i))

SpecPattern == InitPattern /\ [][Next]_vars

\* the elements of the pattern: the named elements in their places and
\* None in the place of each hole
ExpectedElements(slots) ==
    [k \in 1..Len(slots) |->
        IF slots[k] THEN [type |-> "Identifier", name |-> SlotName(k), subscript |-> None]
        ELSE NoNode]

\* the declaration has been parsed to one declarator of an ArrayPattern
\* with the given elements
ParsedPattern(elements) ==
    /\ parse_error.exc = "None"
    /\ Len(ast.statements) = 1
    /\ ast.statements[1].type = "VariableDeclaration"
    /\ Len(ast.statements[1].declarations) = 1
    /\ ast.statements[1].declarations[1].id =
           [type |-> "ArrayPattern", elements |-> elements]

\* C24: an array pattern may have holes: consecutive commas as in
\* let [a, , c] = xs and a leading comma as in let [, b] = xs are parsed
\* without error to an ArrayPattern with None in the place of each hole and
\* the named elements in their places
C24_HolesParsed ==
    \A i \in PatternPrograms :
        ("parse_source" \in called /\ source = PatternSource(i)) =>
            ParsedPattern(ExpectedElements(i.slots))

RECURSIVE ElementsRead(_, _)

\* what the loop of the parser reads from the k-th slot on: a named
\* element is read with the comma after it; at a hole the comma is read as
\* the element None, and the comma of a hole that follows directly is read
\* as the separator; <<"rejected", name>> when the loop stops before a name
ElementsRead(slots, k) ==
    IF k > Len(slots) THEN <<>>
    ELSE IF slots[k]
    THEN <<[type |-> "Identifier", name |-> SlotName(k), subscript |-> None]>>
         \o ElementsRead(slots, k + 1)
    ELSE IF slots[k + 1] THEN <<[type |-> "rejected", name |-> SlotName(k + 1)]>>
    ELSE <<NoNode>> \o ElementsRead(slots, k + 2)

\* what the code does with the programs of C24: a pattern without hole is
\* parsed as stated; a hole followed by a named element is rejected with
\* Expected ']' at that element; of two holes in a row one None is kept
C24_HoleBeforeNameRejected ==
    \A i \in PatternPrograms :
        ("parse_source" \in called /\ source = PatternSource(i)) =>
            LET read == ElementsRead(i.slots, 1)
            IN IF \E k \in 1..Len(read) : read[k].type = "rejected"
               THEN /\ parse_error.exc = "ParseError"
                    /\ \E k \in 1..Len(read) :
                           /\ read[k].type = "rejected"
                           /\ StrContains(parse_error.msg,
                                          "Expected ']'. Got IDENTIFIER: '"
                                          \o Flat(read[k].name) \o "'")
                    /\ ast = NoNode
               ELSE ParsedPattern(read)

\* let [a, , c] = xs has been rejected at c
C24_Witness ==
    /\ source = Str("let [a, , c] = xs;")
    /\ "parse_source" \in called
    /\ parse_error.exc = "ParseError"
    /\ StrContains(parse_error.msg, "Expected ']'. Got IDENTIFIER: 'c'")

\* a pattern without hole has been parsed with its elements in their places
C24_NoHoleWitness ==
    /\ source = Str("const [a,b,c] = xs;")
    /\ "parse_source" \in called
    /\ ParsedPattern(ExpectedElements(<<TRUE, TRUE, TRUE>>))

\* ---------------------------------------------------------------------------
\* Programs with a const declarator that has no initializer
\* ---------------------------------------------------------------------------

\* declarations written as statements: the declarator without initializer
\* alone, first, last and in the middle of a list, with a type, as a pattern
ConstStatements ==
    {Str("const a"), Str("const a = 1, b"), Str("const a, b = 1"),
     Str("const a = 1, b, c = 2"), Str("const a: int"), Str("const [a, b]"),
     Str("const {a}")}

\* the places of a statement: alone, in a function body, in a block under
\* an if, in the body of a loop
ConstPlaces ==
    {[before |-> <<>>, after |-> <<>>],
     [before |-> Str("function g() { "), after |-> Str(" }")],
     [before |-> Str("if (c) { "), after |-> Str(" }")],
     [before |-> Str("while (c) { "), after |-> Str(" }")]}

ConstStatementSources ==
    {place.before \o statement \o terminator \o place.after :
        place \in ConstPlaces, statement \in ConstStatements,
        terminator \in {Str(";"), <<>>}}

\* C-style for loops whose init clause is a const declarator without
\* initializer
ConstForSources ==
    {Str("for (const ") \o name \o Str("; ") \o test \o Str("; ") \o update \o Str(") ")
     \o body :
        name \in {Str("i"), Str("k")}, test \in {<<>>, Str("c")},
        update \in {<<>>, Str("u")}, body \in {Str("s;"), Str("{ s; }"), Str("{ }")}}

InitConst == \E src \in ConstStatementSources \cup ConstForSources : Start(src)

SpecConst == InitConst /\ [][Next]_vars

ConstRejected ==
    /\ parse_error.exc = "ParseError"
    /\ StrContains(parse_error.msg, "const declaration must have initializer")
    /\ ast = NoNode

\* C25: a const declarator without initializer is rejected with ParseError
\* wherever a declaration is parsed: as a statement (const a;), as any
\* declarator of a list (const a = 1, b;), and in the init clause of a
\* C-style for loop (for (const i; ; ) ...)
C25_ConstNeedsInitializer ==
    ("parse_source" \in called /\ source \in ConstStatementSources \cup ConstForSources) =>
        ConstRejected

\* what the code does with the programs of C25: the declaration written as
\* a statement is rejected; in the init clause of a for loop the declarator
\* is accepted with no initializer
C25_ConstInForAccepted ==
    "parse_source" \in called =>
        /\ source \in ConstStatementSources => ConstRejected
        /\ source \in ConstForSources =>
               /\ parse_error.exc = "None"
               /\ ast.statements[1].type = "ForStatement"
               /\ ast.statements[1].init.type = "VariableDeclaration"
               /\ ast.statements[1].init.kind = Str("const")
               /\ Len(ast.statements[1].init.declarations) = 1
               /\ ast.statements[1].init.declarations[1].init = NoNode

\* for (const i; ; ) s; has been parsed with a const declarator that has no
\* initializer
C25_Witness ==
    /\ source = Str("for (const i; ; ) s;")
    /\ "parse_source" \in called
    /\ parse_error.exc = "None"
    /\ ast.statements[1].init.kind = Str("const")
    /\ ast.statements[1].init.declarations[1].init = NoNode

\* const a = 1, b; has been rejected
C25_RejectedWitness ==
    /\ source = Str("const a = 1, b;")
    /\ "parse_source" \in called
    /\ ConstRejected

\* ---------------------------------------------------------------------------
\* Sources of one multi-character ASCII operator
\* ---------------------------------------------------------------------------

\* the operators the claim names, each with the token type of its own
MultiCharacterOperators ==
    {[text |-> Str("==="), type |-> "STRICT_EQUAL"],
     [text |-> Str("!=="), type |-> "STRICT_NOT_EQUAL"],
     [text |-> Str("=="), type |-> "EQUAL"],
     [text |-> Str("!="), type |-> "NOT_EQUAL"],
     [text |-> Str("<="), type |-> "LESS_EQUAL"],
     [text |-> Str(">="), type |-> "GREATER_EQUAL"],
     [text |-> Str("&&"), type |-> "LOGICAL_AND"],
     [text |-> Str("||"), type |-> "LOGICAL_OR"],
     [text |-> Str("|>"), type |-> "PIPELINE"],
     [text |-> Str("<|"), type |-> "REVERSE_PIPELINE"],
     [text |-> Str("=>"), type |-> "ARROW"],
     [text |-> Str("++"), type |-> "INCREMENT"],
     [text |-> Str("--"), type |-> "DECREMENT"],
     [text |-> Str("+="), type |-> "PLUS_ASSIGN"],
     [text |-> Str("-="), type |-> "MINUS_ASSIGN"],
     [text |-> Str("*="), type |-> "MULTIPLY_ASSIGN"],
     [text |-> Str("/="), type |-> "DIVIDE_ASSIGN"],
     [text |-> Str("**"), type |-> "POWER"],
     [text |-> Str("..."), type |-> "DOT_DOT_DOT"],
     [text |-> Str(".."), type |-> "RANGE_INCLUSIVE"]}

\* what is written before and after the operator: nothing or an identifier,
\* with the tokens of it
OperatorNeighbours(name) ==
    {[text |-> <<>>, tokens |-> <<>>],
     [text |-> name, tokens |-> <<[type |-> "IDENTIFIER", value |-> name]>>]}

OperatorPrograms ==
    [operator : MultiCharacterOperators, before : OperatorNeighbours(Str("a")),
     after : OperatorNeighbours(Str("b")), spaced : BOOLEAN]

OperatorSource(i) ==
    i.before.text \o (IF i.spaced THEN Str(" ") ELSE <<>>) \o i.operator.text
    \o (IF i.spaced THEN Str(" ") ELSE <<>>) \o i.after.text

InitOperator == \E i \in OperatorPrograms : Start(OperatorSource(i))

SpecOperator == InitOperator /\ [][Next]_vars

\* the operator is one token of its own type between the tokens of what is
\* written around it
OneOperatorToken(i) ==
    /\ lexer_error.kind = "None"
    /\ TypesAndValues(tokens) =
           i.before.tokens \o <<[type |-> i.operator.type, value |-> i.operator.text]>>
           \o i.after.tokens

\* C26: the lexer takes the longest match for the multi-character ASCII
\* operators: each of === !== == != <= >= && || |> <| => ++ -- += -= *= /=
\* ** ... and .. is returned as one token of its own type, never as two or
\* more shorter tokens
C26_LongestMatch ==
    \A i \in OperatorPrograms :
        ("tokenize_source" \in called /\ source = OperatorSource(i)) => OneOperatorToken(i)

\* what the code does with the sources of C26: every operator but /= is one
\* token of its own type; /= is the two tokens / and =
C26_DivideAssignSplit ==
    \A i \in OperatorPrograms :
        ("tokenize_source" \in called /\ source = OperatorSource(i)) =>
            IF i.operator.text = Str("/=")
            THEN /\ lexer_error.kind = "None"
                 /\ TypesAndValues(tokens) =
                        i.before.tokens
                        \o <<[type |-> "DIVIDE", value |-> Str("/")],
                             [type |-> "ASSIGN", value |-> Str("=")]>>
                        \o i.after.tokens
            ELSE OneOperatorToken(i)

\* a/=b has been tokenized as a, /, =, b
C26_Witness ==
    /\ source = Str("a/=b")
    /\ "tokenize_source" \in called
    /\ TypesAndValues(tokens) =
           <<[type |-> "IDENTIFIER", value |-> Str("a")],
             [type |-> "DIVIDE", value |-> Str("/")],
             [type |-> "ASSIGN", value |-> Str("=")],
             [type |-> "IDENTIFIER", value |-> Str("b")]>>

\* a!==b has been tokenized with !== as one token
C26_OneTokenWitness ==
    /\ source = Str("a!==b")
    /\ "tokenize_source" \in called
    /\ TypesAndValues(tokens) =
           <<[type |-> "IDENTIFIER", value |-> Str("a")],
             [type |-> "STRICT_NOT_EQUAL", value |-> Str("!==")],
             [type |-> "IDENTIFIER", value |-> Str("b")]>>

\* ---------------------------------------------------------------------------
\* Programs of one arrow function with a block body
\* ---------------------------------------------------------------------------

\* the parameters, each with its Lua text
ArrowParameters ==
    {[text |-> Str("x"), lua |-> Str("x")],
     [text |-> Str("()"), lua |-> <<>>],
     [text |-> Str("(a)"), lua |-> Str("a")],
     [text |-> Str("(a, b)"), lua |-> Str("a, b")]}

\* block bodies whose first statement begins with a keyword or ends with a
\* semicolon, each with the Lua lines of its statements
StatementBlocks ==
    {[text |-> Str("{ return a; }"), lua |-> <<Str("return a")>>],
     [text |-> Str("{ return; }"), lua |-> <<Str("return")>>],
     [text |-> Str("{ s; }"), lua |-> <<Str("s")>>],
     [text |-> Str("{ s; return a; }"), lua |-> <<Str("s"), Str("return a")>>],
     [text |-> Str("{ let c = a; return c; }"),
      lua |-> <<Str("local c = a"), Str("return c")>>]}

\* block bodies that can be read as an object literal: the empty block and
\* the block of one identifier without semicolon
ObjectLikeBlocks ==
    {[text |-> Str("{ }"), lua |-> <<>>, object |-> Str("{}")],
     [text |-> Str("{ s }"), lua |-> <<Str("s")>>,
      object |-> Str("{") \o NL \o Str("  s = s,") \o NL \o Str("}")]}

ArrowBlocks ==
    StatementBlocks \cup {[text |-> b.text, lua |-> b.lua] : b \in ObjectLikeBlocks}

\* the arrow function is the value of a declaration or of an assignment
ArrowPrograms == [params : ArrowParameters, block : ArrowBlocks, declared : BOOLEAN]

ArrowSource(i) ==
    (IF i.declared THEN Str("let f = ") ELSE Str("f = "))
    \o i.params.text \o Str(" => ") \o i.block.text \o Str(";")

InitArrow == \E i \in ArrowPrograms : Start(ArrowSource(i))

SpecArrow == InitArrow /\ [][Next]_vars

\* the node of the arrow function in the tree of the program
ArrowNode(i) ==
    IF i.declared THEN ast.statements[1].declarations[1].init
    ELSE ast.statements[1].expression.right

\* the Lua text of the program around the Lua text of the function
ArrowLua(i, function) ==
    (IF i.declared THEN Str("local f = ") ELSE Str("f = ")) \o function

\* C27: an arrow function with a block body, (params) => { statements } or
\* x => { statements }, is parsed to an arrow function whose body is a block
\* statement and compiled to function(params) <statements> end; a return
\* statement in the block is accepted by the parser
C27_ArrowBlockBody ==
    \A i \in ArrowPrograms :
        source = ArrowSource(i) =>
            /\ "parse_source" \in called =>
                   /\ parse_error.exc = "None"
                   /\ ArrowNode(i).type = "ArrowFunctionExpression"
                   /\ ArrowNode(i).body.type = "BlockStatement"
                   /\ Len(ArrowNode(i).body.statements) = Len(i.block.lua)
            /\ "transpile_source" \in called =>
                   /\ transpile_error.exc = "None"
                   /\ InOrder(LuaBody(lua),
                              <<ArrowLua(i, Str("function(") \o i.params.lua \o Str(")") \o NL)>>
                              \o i.block.lua \o <<Str("end")>>, 1)

\* what the code does with the programs of C27: the body is read as an
\* expression, so the opening brace begins an object literal: a block with
\* a keyword or a semicolon is rejected, and the empty block and the block
\* of one identifier give a function that returns an object
C27_ArrowBlockReadAsObject ==
    \A i \in ArrowPrograms :
        source = ArrowSource(i) =>
            IF i.block \in StatementBlocks
            THEN /\ "parse_source" \in called =>
                        /\ parse_error.exc = "ParseError"
                        /\ \/ StrContains(parse_error.msg, "Expected property name")
                           \/ StrContains(parse_error.msg,
                                  "Expected '}' after object properties. Got SEMICOLON: ';'")
                        /\ ast = NoNode
                 /\ "transpile_source" \in called =>
                        /\ transpile_error.exc = "TranspilerError"
                        /\ lua = <<>>
            ELSE \E b \in ObjectLikeBlocks :
                    /\ b.text = i.block.text
                    /\ "parse_source" \in called =>
                           /\ parse_error.exc = "None"
                           /\ ArrowNode(i).type = "ArrowFunctionExpression"
                           /\ ArrowNode(i).body.type = "ObjectExpression"
                    /\ "transpile_source" \in called =>
                           /\ transpile_error.exc = "None"
                           /\ LuaBody(lua) =
                                  ArrowLua(i, Str("function(") \o i.params.lua
                                              \o Str(") return ") \o b.object \o Str(" end"))

\* an arrow function whose block returns its parameter has been rejected
C27_Witness ==
    /\ source = Str("let f = (a, b) => { return a; };")
    /\ {"parse_source", "transpile_source"} \subseteq called
    /\ parse_error.exc = "ParseError"
    /\ StrContains(parse_error.msg, "Expected property name")
    /\ transpile_error.exc = "TranspilerError"

\* an arrow function with an empty block has been compiled to a function
\* that returns an empty table
C27_ObjectWitness ==
    /\ source = Str("let f = x => { };")
    /\ "transpile_source" \in called
    /\ LuaBody(lua) = Str("local f = function(x) return {} end")

\* ---------------------------------------------------------------------------
\* Programs of a function or method declared in a loop body
\* ---------------------------------------------------------------------------

NestedJumps == [loop : LoopConstructs, function : FunctionConstructs,
                jump : {"break", "continue"}]

\* the jump directly in the body of the function, no loop of the function
\* around it
JumpInFunctionSource(i) == Enclose(i.loop, Enclose(i.function, JumpText(i.jump)))

\* the jump in the body of the outer loop, after the function has ended
JumpAfterFunctionSource(i) ==
    Enclose(i.loop, Enclose(i.function, Str("s;")) \o Str(" ") \o JumpText(i.jump))

\* the jump in a loop of the function
JumpInInnerLoopSource(i) ==
    Enclose(i.loop, Enclose(i.function, Enclose("while", JumpText(i.jump))))

JumpInFunctionSources == {JumpInFunctionSource(i) : i \in NestedJumps}
JumpAfterFunctionSources == {JumpAfterFunctionSource(i) : i \in NestedJumps}
JumpInInnerLoopSources == {JumpInInnerLoopSource(i) : i \in NestedJumps}

InitNestedJumps ==
    \E src \in JumpInFunctionSources \cup JumpAfterFunctionSources
               \cup JumpInInnerLoopSources : Start(src)

SpecNestedJumps == InitNestedJumps /\ [][Next]_vars

\* C28: the body of a function or method begins with no loop around it: a
\* break or continue directly in a function body is rejected with
\* ParseError also when the function is declared in a loop body; after the
\* function body the loop around it counts again, so that a break later in
\* the body of the outer loop is accepted
C28_FunctionBodyLeavesLoop ==
    "parse_source" \in called =>
        /\ source \in JumpInFunctionSources =>
               /\ parse_error.exc = "ParseError"
               /\ StrContains(parse_error.msg, "statement outside loop")
               /\ ast = NoNode
        /\ source \in JumpAfterFunctionSources \cup JumpInInnerLoopSources =>
               /\ parse_error.exc = "None"
               /\ ast.type = "Program"

\* what the code does with the programs of C28: the loop around a function
\* declaration counts inside the function body too, so the jump directly in
\* the function body is accepted like the two other places of the jump
C28_JumpInFunctionAccepted ==
    ("parse_source" \in called
        /\ source \in JumpInFunctionSources \cup JumpAfterFunctionSources
                      \cup JumpInInnerLoopSources) =>
        /\ parse_error.exc = "None"
        /\ ast.type = "Program"
        /\ Len(ast.statements) = 1
        /\ ast.statements[1].type \in {"WhileStatement", "ForStatement", "ForOfStatement"}

\* a break directly in the body of a function declared in a while loop has
\* been accepted
C28_Witness ==
    /\ source = Str("while (a) { function g() { break; } }")
    /\ "parse_source" \in called
    /\ parse_error.exc = "None"
    /\ ast.statements[1].body.statements[1].type = "FunctionDeclaration"
    /\ ast.statements[1].body.statements[1].body.statements[1].type = "BreakStatement"

\* a continue after a method declared in a for-of loop has been accepted
C28_RestoredWitness ==
    /\ source = Str("for (let x of xs) { class D { m() { s; } } continue; }")
    /\ "parse_source" \in called
    /\ parse_error.exc = "None"
    /\ ast.statements[1].body.statements[2].type = "ContinueStatement"

\* ---------------------------------------------------------------------------
\* C29: the loops of the parser on token lists that end with EOF
\* ---------------------------------------------------------------------------

\* programs that go through every statement loop and every list loop
LoopSources ==
    {Str("f(a, ...b)") \o NL \o NL \o Str("{ x; y }"),
     Str("class A { static m(a, b = 1) { } ") \o NL \o Str(" n() { } }"),
     Str("let [a, , [b], ...r] = [1, , ...c]"),
     Str("let {a, b: [c], ...r} = {a: 1, b, ...o}"),
     Str("x = ") \o <<BACKTICK>> \o Str("a${b}c${d}") \o <<BACKTICK>> \o Str(" + 1"),
     Str("function f(a: int, ...r) { return } ; f()"),
     Str("x = (a, b) => [a] ; while (x) { break }"),
     Str("if (a) { } else { continue } ] ) }")}

\* the token list of each program, and the list cut short after each of its
\* tokens, with the EOF token at the end
LoopTokenLists ==
    UNION {{SubSeq(toks, 1, k) \o <<toks[Len(toks)]>> : k \in 0..(Len(toks) - 1)}
           : toks \in {tokenize(src).tokens : src \in LoopSources}}

\* a parser at any token of a list, inside or outside a loop and a function
InitLoops ==
    /\ Loaded(<<>>)
    /\ Built(AnthropicAdapter(NoClient, "", EmptyDict, "None"))
    /\ \E toks \in LoopTokenLists, inside \in BOOLEAN :
          \E cursor \in 0..(Len(toks) - 1) :
             Positioned([ParserInit(toks) EXCEPT !.current = cursor,
                                                !.in_loop = inside,
                                                !.in_function = inside])

SpecLoops == InitLoops /\ [][NextLoops]_vars

\* an iteration can be made: no exception has been raised and the cursor is
\* before EOF, the condition of the loop of parse_program, which the condition
\* of every other loop implies
LoopCondition == raised.exc = "None" /\ ~is_at_end(parser)

\* a loop whose condition holds makes its next iteration: weak fairness of
\* NextLoops with the loop condition for the enabling condition
SpecLoopsFair == SpecLoops /\ ([]<>(~LoopCondition) \/ []<><<NextLoops>>_vars)

\* the index of the EOF token, counted as the cursor counts
EofIndex(p) == Len(p.tokens) - 1

C29_ListWitness ==
    /\ iterated = "parse_template_literal"
    /\ parser.current > 0
    /\ parser.tokens[parser.current].type = "TEMPLATE_EXPRESSION"
    /\ raised.exc = "None"

\* an iteration of the loop of parse_block_statement has raised ParseError on
\* a list cut short, at its EOF token
C29_RaisedWitness ==
    /\ iterated = "parse_block_statement"
    /\ raised.exc = "ParseError"
    /\ parser.current = EofIndex(parser)
    /\ Len(parser.tokens) > 3

\* ---------------------------------------------------------------------------
\* C30: block openers and end in the emitted Lua
\* ---------------------------------------------------------------------------

\* else-if parts of an if statement, at most
MaxElseIfs == 2

\* if statements with or without a final else: alone with a number of
\* else-if parts, alone with a loop in each branch, and in the body of a
\* function or of a loop
IfChains ==
    {i \in [elseifs : 0..MaxElseIfs, final_else : BOOLEAN,
            around : {"none", "function", "while", "for_of", "for"},
            branch : {"assignment", "while"}] :
        /\ i.elseifs = 0 \/ i.around = "none"
        /\ i.branch = "assignment" \/ (i.around = "none" /\ i.elseifs = 0)}

\* the condition of the k-th if of a chain
ChainCondition(k) == <<Str("pqrs")[k]>>

BranchText(i) ==
    IF i.branch = "while" THEN Str("{ while (c) { y = 2 } }") ELSE Str("{ x = 1 }")

RECURSIVE ElseIfParts(_, _)
ElseIfParts(i, k) ==
    IF k > i.elseifs THEN <<>>
    ELSE Str(" else if (") \o ChainCondition(k + 1) \o Str(") ") \o BranchText(i)
         \o ElseIfParts(i, k + 1)

ChainText(i) ==
    Str("if (") \o ChainCondition(1) \o Str(") ") \o BranchText(i) \o ElseIfParts(i, 1)
    \o (IF i.final_else THEN Str(" else ") \o BranchText(i) ELSE <<>>)

ChainSource(i) ==
    CASE i.around = "none" -> ChainText(i)
      [] i.around = "function" -> Str("function g() { ") \o ChainText(i) \o Str(" }")
      [] i.around = "while" -> Str("while (a) { ") \o ChainText(i) \o Str(" }")
      [] i.around = "for_of" -> Str("for (let x of xs) { ") \o ChainText(i) \o Str(" }")
      [] i.around = "for" ->
           Str("for (let i = 0; i < n; i = i + 1) { ") \o ChainText(i) \o Str(" }")

InitChain == \E i \in IfChains : Start(ChainSource(i))

SpecChain == InitChain /\ [][Next]_vars

\* how often the word w stands in the text, between spaces or line ends
WordCount(text, w) ==
    Occurrences(<<" ">> \o [k \in 1..Len(text) |-> IF text[k] = "\n" THEN " " ELSE text[k]]
                \o <<" ">>,
                <<" ">> \o Str(w) \o <<" ">>)

\* the block openers of the text: function, if, while and for
Openers(text) ==
    WordCount(text, "function") + WordCount(text, "if") + WordCount(text, "while")
    + WordCount(text, "for")

\* an else with something after it on its line
ElseWithCondition(text) == Occurrences(text, Str("else "))

\* C30: in the emitted Lua every block opener (function, if ... then,
\* while ... do, for ... do) is closed by exactly one end: every if statement,
\* also an if ... else if ... else chain of any length, comes out as one
\* if / elseif / else chain with one end per opened if, no end without an
\* opener and no else directly followed by a condition
C30_OpenersClosedOnce ==
    "transpile_source" \in called =>
        \A i \in IfChains : source = ChainSource(i) =>
            /\ transpile_error.exc = "None"
            /\ WordCount(LuaBody(lua), "end") = Openers(LuaBody(lua))
            /\ ElseWithCondition(LuaBody(lua)) = 0
            /\ WordCount(LuaBody(lua), "elseif") = i.elseifs

\* what visit_IfStatement emits: an if statement with no else-if part is
\* closed by one end, and so are the function and the loops; each else-if
\* part comes out as a line "else <condition> then" and brings an end of its
\* own for which no if was opened, and elseif is never written
C30_ElseIfAsElseCondition ==
    "transpile_source" \in called =>
        \A i \in IfChains : source = ChainSource(i) =>
            /\ transpile_error.exc = "None"
            /\ WordCount(LuaBody(lua), "end") = Openers(LuaBody(lua)) + i.elseifs
            /\ ElseWithCondition(LuaBody(lua)) = i.elseifs
            /\ \A k \in 1..i.elseifs :
                  Occurrences(LuaBody(lua),
                              Str("else ") \o ChainCondition(k + 1) \o Str(" then") \o NL) = 1
            /\ WordCount(LuaBody(lua), "elseif") = 0
            /\ WordCount(LuaBody(lua), "else") = i.elseifs + (IF i.final_else THEN 1 ELSE 0)

\* an if with two else-if parts and a final else has been compiled: one
\* opener and three end
C30_Witness ==
    /\ "transpile_source" \in called
    /\ source = ChainSource([elseifs |-> 2, final_else |-> TRUE, around |-> "none",
                             branch |-> "assignment"])
    /\ transpile_error.exc = "None"
    /\ Openers(LuaBody(lua)) = 1
    /\ WordCount(LuaBody(lua), "end") = 3

\* an if with no else-if part in the body of a for loop has been compiled,
\* and every opener has its end
C30_BalancedWitness ==
    /\ "transpile_source" \in called
    /\ source = ChainSource([elseifs |-> 0, final_else |-> TRUE, around |-> "for",
                             branch |-> "assignment"])
    /\ transpile_error.exc = "None"
    /\ WordCount(LuaBody(lua), "end") = Openers(LuaBody(lua))

====
